---------------------------- MODULE Spec2Model ----------------------------
(***************************************************************************)
(* A model of src/src/lib/sec-filings.ts: the rate-limited fetcher         *)
(* (secFetch), the ticker directory, company resolution, filing selection, *)
(* the document extractors, the on-disk filing cache and the assembler     *)
(* fetchSecFilingSummary.                                                  *)
(*                                                                         *)
(* Strings are sequences of one-character strings, so that trimming,       *)
(* lowercasing, zero stripping, splitting and substring search are         *)
(* computed the way the code computes them.                                *)
(*                                                                         *)
(* Two specifications share the variables:                                 *)
(*   SpecGate  concurrent callers of secFetch against a wall clock;        *)
(*   Spec      requests running through fetchSecFilingSummary and          *)
(*             searchCompanyByName, one await segment per step, with the   *)
(*             time spent at the gate abstracted away.                     *)
(***************************************************************************)
EXTENDS Integers, Sequences, FiniteSets, TLC

VARIABLES
    clock,            \* Date.now(), in milliseconds
    lastRequestTime,  \* module-level let lastRequestTime
    gate,             \* per secFetch caller: position in secFetch, timer deadline,
                      \* number of fetch() calls made, the response received
                      \* and the message of the Error thrown
    dispatched        \* history: the clock value of every dispatched request, in order

VARIABLES
    selfHosted,       \* isSelfHostedMode(), fixed for the life of the process
    concurrent,       \* whether a second caller may run requests at the same time
    tickerMap,        \* module-level let tickerMap: None (null) or the loaded directory
    tickerFile,       \* the file TICKER_CACHE: None (absent) or its content
    disk,             \* the files CACHE_ROOT/<cacheKey>.json: cacheKey -> content
    proc,             \* per caller: the position and the locals of its running call
    started           \* number of calls started so far

VARIABLES
    document,         \* the flattened text handed to extractSections
    extracted,        \* None, or the map extractSections returned for it
    keyInputs,        \* two (cik, accessionNumber) pairs handed to buildArchiveBase
    cacheKeys         \* None, or the two cache keys it returned for them

gateVars == <<clock, lastRequestTime, gate, dispatched>>
pipeVars == <<selfHosted, concurrent, tickerMap, tickerFile, disk, proc, started>>
extractVars == <<document, extracted, keyInputs, cacheKeys>>

vars == <<gateVars, pipeVars, extractVars>>

(***************************************************************************)
(* Bounds of the model.                                                    *)
(***************************************************************************)
NumCallers == 3      \* concurrent callers of secFetch in SpecGate
TickMs == 50         \* granularity of the modelled clock
StartClock == 1000   \* Date.now() when the process starts (any value >= minDelay)
MaxClock == 1400     \* the clock stops advancing here
MaxRequests == 2     \* calls of fetchSecFilingSummary / searchCompanyByName per run
MaxSegments == 4     \* segments of a text handed to extractSections on its own

Callers == 1..NumCallers

(***************************************************************************)
(* JavaScript values.  A string is a sequence of one-character strings; an *)
(* optional value (a field that may be undefined, a number that may be     *)
(* NaN, a result that may be null) is <<>> or <<v>>; an optional string is  *)
(* the string or the value undefined.                                      *)
(***************************************************************************)
None == <<>>
Some(v) == <<v>>
IsSome(o) == o # <<>>
Val(o) == o[1]

\* a string-valued field that is undefined: a one-element sequence whose element
\* is not a character, so it equals no string
undefined == <<"undefined">>
\* truthiness of a string or undefined: undefined and "" are falsy
TruthyStr(s) == s # undefined /\ s # <<>>
\* truthiness of an optional number: undefined, NaN and 0 are falsy
TruthyNum(o) == IsSome(o) /\ Val(o) # 0

Min(a, b) == IF a < b THEN a ELSE b
Max(a, b) == IF a > b THEN a ELSE b

UpperChars == <<"A", "B", "C", "D", "E", "F", "G", "H", "I", "J", "K", "L", "M",
                "N", "O", "P", "Q", "R", "S", "T", "U", "V", "W", "X", "Y", "Z">>
LowerChars == <<"a", "b", "c", "d", "e", "f", "g", "h", "i", "j", "k", "l", "m",
                "n", "o", "p", "q", "r", "s", "t", "u", "v", "w", "x", "y", "z">>
DigitChars == <<"0", "1", "2", "3", "4", "5", "6", "7", "8", "9">>
WhiteSpace == {" ", "\n", "\t"}

IndexIn(seq, c) ==
    IF \E i \in 1..Len(seq) : seq[i] = c
    THEN CHOOSE i \in 1..Len(seq) : seq[i] = c
    ELSE 0

IsDigit(c) == IndexIn(DigitChars, c) > 0

\* String.prototype.toLowerCase / toUpperCase
toLowerCase(s) ==
    [i \in 1..Len(s) |->
        IF IndexIn(UpperChars, s[i]) > 0 THEN LowerChars[IndexIn(UpperChars, s[i])] ELSE s[i]]
toUpperCase(s) ==
    [i \in 1..Len(s) |->
        IF IndexIn(LowerChars, s[i]) > 0 THEN UpperChars[IndexIn(LowerChars, s[i])] ELSE s[i]]

\* String.prototype.trim
RECURSIVE trimStart(_)
trimStart(s) ==
    IF s # <<>> /\ Head(s) \in WhiteSpace THEN trimStart(Tail(s)) ELSE s
RECURSIVE trimEnd(_)
trimEnd(s) ==
    IF s # <<>> /\ s[Len(s)] \in WhiteSpace THEN trimEnd(SubSeq(s, 1, Len(s) - 1)) ELSE s
trim(s) == trimEnd(trimStart(s))

\* slice(start, end) of strings and arrays: 0-based, end exclusive, a
\* negative index counts from the end, out-of-range indices are clamped
slice(s, start, end) ==
    LET n  == Len(s)
        st == IF start < 0 THEN Max(n + start, 0) ELSE Min(start, n)
        en == IF end < 0 THEN Max(n + end, 0) ELSE Min(end, n)
    IN  IF st >= en THEN <<>> ELSE SubSeq(s, st + 1, en)

\* indexOf(needle) from position from (0-based), -1 when absent
indexOfFrom(hay, needle, from) ==
    LET hits == {i \in from..(Len(hay) - Len(needle)) :
                    SubSeq(hay, i + 1, i + Len(needle)) = needle}
    IN  IF hits = {} THEN -1 ELSE CHOOSE i \in hits : \A j \in hits : i <= j
includes(hay, needle) == indexOfFrom(hay, needle, 0) >= 0
startsWith(s, p) == Len(p) <= Len(s) /\ SubSeq(s, 1, Len(p)) = p
endsWith(s, p) == Len(p) <= Len(s) /\ SubSeq(s, Len(s) - Len(p) + 1, Len(s)) = p

\* split(/\s+/): the pieces between maximal runs of white space
RECURSIVE SplitWsFrom(_, _, _)
SplitWsFrom(s, cur, acc) ==
    IF s = <<>> THEN Append(acc, cur)
    ELSE IF Head(s) \in WhiteSpace
         THEN SplitWsFrom(trimStart(s), <<>>, Append(acc, cur))
         ELSE SplitWsFrom(Tail(s), Append(cur, Head(s)), acc)
splitWs(s) == SplitWsFrom(s, <<>>, <<>>)

\* Array.prototype.join
RECURSIVE join(_, _)
join(parts, sep) ==
    IF parts = <<>> THEN <<>>
    ELSE IF Len(parts) = 1 THEN parts[1]
    ELSE parts[1] \o sep \o join(Tail(parts), sep)

\* replace(/^0+/, "")
RECURSIVE stripLeadingZeros(_)
stripLeadingZeros(s) ==
    IF s # <<>> /\ Head(s) = "0" THEN stripLeadingZeros(Tail(s)) ELSE s

\* replace(/-/g, "")
removeDashes(s) == SelectSeq(s, LAMBDA c : c # "-")

\* Number(string): white space is trimmed, "" is 0, a run of decimal digits
\* is its value, anything else is NaN (None)
RECURSIVE DigitsValue(_)
DigitsValue(s) ==
    IF s = <<>> THEN 0
    ELSE 10 * DigitsValue(SubSeq(s, 1, Len(s) - 1)) + (IndexIn(DigitChars, s[Len(s)]) - 1)
NumberOf(s) ==
    LET t == trim(s)
    IN  IF \A i \in 1..Len(t) : IsDigit(t[i]) THEN Some(DigitsValue(t)) ELSE None

\* String(number) for a non-negative integer or NaN
RECURSIVE NatToStr(_)
NatToStr(n) ==
    IF n < 10 THEN <<DigitChars[n + 1]>>
    ELSE NatToStr(n \div 10) \o <<DigitChars[(n % 10) + 1]>>
StringOf(num) == IF IsSome(num) THEN NatToStr(Val(num)) ELSE <<"N", "a", "N">>

\* padStart(width, "0")
RECURSIVE padStart(_, _)
padStart(s, width) == IF Len(s) >= width THEN s ELSE padStart(<<"0">> \o s, width)

(***************************************************************************)
(* Static data of the module (lines 77-243).                               *)
(***************************************************************************)
f10K == <<"1", "0", "-", "K">>
f13FHR == <<"1", "3", "F", "-", "H", "R">>
f13FHRA == <<"1", "3", "F", "-", "H", "R", "/", "A">>

\* KNOWN_13F_FILERS (lines 90-200), in the order of the literal: the
\* Vanguard and BlackRock aliases of lines 92-100.
KNOWN_13F_FILERS ==
    << [key |-> <<"v", "a", "n", "g", "u", "a", "r", "d">>, cik |-> <<"1", "0", "2", "9", "0", "9">>, name |-> <<"V", "A", "N", "G", "U", "A", "R", "D", " ", "G", "R", "O", "U", "P", " ", "I", "N", "C">>],
       [key |-> <<"v", "a", "n", "g", "u", "a", "r", "d", " ", "g", "r", "o", "u", "p">>, cik |-> <<"1", "0", "2", "9", "0", "9">>, name |-> <<"V", "A", "N", "G", "U", "A", "R", "D", " ", "G", "R", "O", "U", "P", " ", "I", "N", "C">>],
       [key |-> <<"v", "a", "n", "g", "u", "a", "r", "d", " ", "g", "r", "o", "u", "p", " ", "i", "n", "c">>, cik |-> <<"1", "0", "2", "9", "0", "9">>, name |-> <<"V", "A", "N", "G", "U", "A", "R", "D", " ", "G", "R", "O", "U", "P", " ", "I", "N", "C">>],
       [key |-> <<"t", "h", "e", " ", "v", "a", "n", "g", "u", "a", "r", "d", " ", "g", "r", "o", "u", "p">>, cik |-> <<"1", "0", "2", "9", "0", "9">>, name |-> <<"V", "A", "N", "G", "U", "A", "R", "D", " ", "G", "R", "O", "U", "P", " ", "I", "N", "C">>],
       [key |-> <<"b", "l", "a", "c", "k", "r", "o", "c", "k">>, cik |-> <<"1", "3", "6", "4", "7", "4", "2">>, name |-> <<"B", "l", "a", "c", "k", "R", "o", "c", "k", " ", "F", "i", "n", "a", "n", "c", "e", ",", " ", "I", "n", "c", ".">>],
       [key |-> <<"b", "l", "a", "c", "k", "r", "o", "c", "k", " ", "i", "n", "c">>, cik |-> <<"1", "3", "6", "4", "7", "4", "2">>, name |-> <<"B", "l", "a", "c", "k", "R", "o", "c", "k", " ", "F", "i", "n", "a", "n", "c", "e", ",", " ", "I", "n", "c", ".">>] >>

KnownKeys == {KNOWN_13F_FILERS[i].key : i \in 1..Len(KNOWN_13F_FILERS)}

\* KNOWN_13F_FILERS[term] (lines 351, 365): a property read on an object
\* literal. An own key gives its entry; "constructor" gives the inherited
\* Object function, which is truthy, has no cik and whose name is "Object";
\* any other term gives undefined (None).
knownGet(term) ==
    IF term \in KnownKeys
    THEN LET i == CHOOSE i \in 1..Len(KNOWN_13F_FILERS) : KNOWN_13F_FILERS[i].key = term
         IN  Some([cik |-> KNOWN_13F_FILERS[i].cik, name |-> KNOWN_13F_FILERS[i].name])
    ELSE IF term = <<"c", "o", "n", "s", "t", "r", "u", "c", "t", "o", "r">>
         THEN Some([cik |-> undefined, name |-> <<"O", "b", "j", "e", "c", "t">>])
         ELSE None

\* an override table that never answers
knownLookupNothing(searchTerm) == None

\* lines 350-376: step 1 of searchCompanyByName, the exact key and then the
\* word prefixes from the longest to the shortest. None when nothing matches.
knownLookup(searchTerm) ==
    LET known == knownGet(searchTerm)
        words == splitWs(searchTerm)
        prefix(len) == join(SubSeq(words, 1, len), <<" ">>)
        lens  == {len \in 1..Len(words) : IsSome(knownGet(prefix(len)))}
    IN  IF IsSome(known)
        THEN Some([cik |-> Val(known).cik, companyName |-> Val(known).name])
        ELSE IF lens # {}
             THEN LET len == CHOOSE l \in lens : \A m \in lens : m <= l
                      knownPrefix == Val(knownGet(prefix(len)))
                  IN  Some([cik |-> knownPrefix.cik, companyName |-> knownPrefix.name])
             ELSE None

\* line 350: the override table is consulted for 13F-HR or no form type
overrideApplies(formType) == formType = f13FHR \/ ~TruthyStr(formType)

Infinity == 1000000

\* scanDirectory in which an entry that ties the running best replaces it
RECURSIVE scanDirectoryKeepsLast(_, _, _, _)
scanDirectoryKeepsLast(entries, searchTerm, bestMatch, bestScore) ==
    IF entries = <<>> THEN [bestMatch |-> bestMatch, bestScore |-> bestScore]
    ELSE LET entry == Head(entries)
             title == toLowerCase(entry.title)
         IN  IF title = searchTerm
             THEN [bestMatch |-> Some(entry), bestScore |-> Infinity]
             ELSE LET b1 == IF includes(title, searchTerm) /\ Len(searchTerm) >= bestScore
                            THEN [m |-> Some(entry), s |-> Len(searchTerm)]
                            ELSE [m |-> bestMatch, s |-> bestScore]
                      b2 == IF includes(searchTerm, title) /\ Len(title) >= b1.s
                            THEN [m |-> Some(entry), s |-> Len(title)]
                            ELSE b1
                  IN  scanDirectoryKeepsLast(Tail(entries), searchTerm, b2.m, b2.s)

\* lines 381-399: the scan of Object.values(directory), with its early exit
RECURSIVE scanDirectory(_, _, _, _)
scanDirectory(entries, searchTerm, bestMatch, bestScore) ==
    IF entries = <<>> THEN [bestMatch |-> bestMatch, bestScore |-> bestScore]
    ELSE LET entry == Head(entries)
             title == toLowerCase(entry.title)
         IN  IF title = searchTerm
             THEN [bestMatch |-> Some(entry), bestScore |-> Infinity]
             ELSE LET b1 == IF includes(title, searchTerm) /\ Len(searchTerm) > bestScore
                            THEN [m |-> Some(entry), s |-> Len(searchTerm)]
                            ELSE [m |-> bestMatch, s |-> bestScore]
                      b2 == IF includes(searchTerm, title) /\ Len(title) > b1.s
                            THEN [m |-> Some(entry), s |-> Len(title)]
                            ELSE b1
                  IN  scanDirectory(Tail(entries), searchTerm, b2.m, b2.s)

\* lines 381-412: step 2 of searchCompanyByName on a loaded directory (a
\* sequence of [key, entry] in insertion order)
directoryMatch(directory, searchTerm) ==
    LET r == scanDirectory([i \in 1..Len(directory) |-> directory[i].entry],
                           searchTerm, None, 0)
    IN  IF IsSome(r.bestMatch) /\ r.bestScore >= 3
        THEN Some([cik |-> NatToStr(Val(r.bestMatch).cik_str),
                   companyName |-> Val(r.bestMatch).title])
        ELSE None

\* lines 307-315: the reduce of the registry into a map keyed by the
\* uppercased ticker; a repeated key keeps its place and takes the later entry
RECURSIVE reduceTickers(_, _)
reduceTickers(data, acc) ==
    IF data = <<>> THEN acc
    ELSE LET entry == Head(data)
             key   == toUpperCase(entry.ticker)
             at    == {i \in 1..Len(acc) : acc[i].key = key}
         IN  IF ~TruthyStr(entry.ticker) THEN reduceTickers(Tail(data), acc)
             ELSE IF at # {}
                  THEN reduceTickers(Tail(data),
                         [i \in 1..Len(acc) |->
                            IF i \in at THEN [key |-> key, entry |-> entry] ELSE acc[i]])
                  ELSE reduceTickers(Tail(data), Append(acc, [key |-> key, entry |-> entry]))

\* line 497: directory[ticker.toUpperCase()]
directoryGet(directory, ticker) ==
    LET key == toUpperCase(ticker)
        at  == {i \in 1..Len(directory) : directory[i].key = key}
    IN  IF at = {} THEN None ELSE Some(directory[CHOOSE i \in at : TRUE].entry)

\* lines 437-444: the cik and the name read from the Atom body. The body is
\* modelled by the text of its <cik> and <conformed-name> elements (None
\* when the element is missing); /<cik>0*(\d+)<\/cik>/ drops the leading
\* zeros but keeps one digit.
cgiCandidate(body, name) ==
    IF IsSome(body.cik) /\ Val(body.cik) # <<>>
       /\ \A i \in 1..Len(Val(body.cik)) : IsDigit(Val(body.cik)[i])
    THEN LET stripped == stripLeadingZeros(Val(body.cik))
         IN  Some([cik |-> IF stripped = <<>> THEN <<"0">> ELSE stripped,
                   companyName |-> IF IsSome(body.conformedName)
                                      /\ Val(body.conformedName) # <<>>
                                   THEN Val(body.conformedName) ELSE name])
    ELSE None

\* lines 450-451: forms.some((f) => f.startsWith(formType))
hasForm(submissions, formType) ==
    /\ IsSome(submissions.recent)
    /\ \E i \in 1..Len(Val(submissions.recent)) :
          startsWith(Val(submissions.recent)[i].form, formType)

\* selectFiling that returns the latest entry that passes the filters
selectFilingLast(submissions, formType, filingDate, filingYear) ==
    IF ~IsSome(submissions.recent) THEN None
    ELSE LET entries == Val(submissions.recent)
             targetForms == IF formType = f13FHR THEN {f13FHR, f13FHRA} ELSE {formType}
             normalizedDate == IF filingDate = undefined THEN undefined
                               ELSE slice(filingDate, 0, 10)
             accepts(entry) ==
                 /\ entry.form \in targetForms
                 /\ ~(TruthyStr(normalizedDate) /\ entry.filingDate # normalizedDate)
                 /\ ~(/\ TruthyNum(filingYear)
                      /\ NumberOf(slice(entry.filingDate, 0, 4)) # filingYear
                      /\ (IF entry.reportDate = undefined THEN None
                          ELSE NumberOf(slice(entry.reportDate, 0, 4))) # filingYear)
             hits == {i \in 1..Len(entries) : accepts(entries[i])}
         IN  IF hits = {} THEN None
             ELSE Some(entries[CHOOSE i \in hits : \A j \in hits : i >= j])

\* selectFiling that takes an entry of the form when its date or its year
\* passes, instead of both
selectFilingEitherFilter(submissions, formType, filingDate, filingYear) ==
    IF ~IsSome(submissions.recent) THEN None
    ELSE LET entries == Val(submissions.recent)
             targetForms == IF formType = f13FHR THEN {f13FHR, f13FHRA} ELSE {formType}
             normalizedDate == IF filingDate = undefined THEN undefined
                               ELSE slice(filingDate, 0, 10)
             dateFails(entry) == TruthyStr(normalizedDate) /\ entry.filingDate # normalizedDate
             yearFails(entry) ==
                 /\ TruthyNum(filingYear)
                 /\ NumberOf(slice(entry.filingDate, 0, 4)) # filingYear
                 /\ (IF entry.reportDate = undefined THEN None
                     ELSE NumberOf(slice(entry.reportDate, 0, 4))) # filingYear
             accepts(entry) ==
                 /\ entry.form \in targetForms
                 /\ ~(dateFails(entry) /\ yearFails(entry))
             hits == {i \in 1..Len(entries) : accepts(entries[i])}
         IN  IF hits = {} THEN None
             ELSE Some(entries[CHOOSE i \in hits : \A j \in hits : i <= j])

\* selectFiling that takes every form string that starts with the form type
selectFilingByPrefix(submissions, formType, filingDate, filingYear) ==
    IF ~IsSome(submissions.recent) THEN None
    ELSE LET entries == Val(submissions.recent)
             normalizedDate == IF filingDate = undefined THEN undefined
                               ELSE slice(filingDate, 0, 10)
             accepts(entry) ==
                 /\ startsWith(entry.form, formType)
                 /\ ~(TruthyStr(normalizedDate) /\ entry.filingDate # normalizedDate)
                 /\ ~(/\ TruthyNum(filingYear)
                      /\ NumberOf(slice(entry.filingDate, 0, 4)) # filingYear
                      /\ (IF entry.reportDate = undefined THEN None
                          ELSE NumberOf(slice(entry.reportDate, 0, 4))) # filingYear)
             hits == {i \in 1..Len(entries) : accepts(entries[i])}
         IN  IF hits = {} THEN None
             ELSE Some(entries[CHOOSE i \in hits : \A j \in hits : i <= j])

\* lines 533-571: selectFiling. submissions.recent is None when the history
\* has no filings.recent (or no form list), else the entries in upstream order.
selectFiling(submissions, formType, filingDate, filingYear) ==
    IF ~IsSome(submissions.recent) THEN None
    ELSE LET entries == Val(submissions.recent)
             targetForms == IF formType = f13FHR THEN {f13FHR, f13FHRA} ELSE {formType}
             normalizedDate == IF filingDate = undefined THEN undefined
                               ELSE slice(filingDate, 0, 10)
             accepts(entry) ==
                 /\ entry.form \in targetForms
                 /\ ~(TruthyStr(normalizedDate) /\ entry.filingDate # normalizedDate)
                 /\ ~(/\ TruthyNum(filingYear)
                      /\ NumberOf(slice(entry.filingDate, 0, 4)) # filingYear
                      /\ (IF entry.reportDate = undefined THEN None
                          ELSE NumberOf(slice(entry.reportDate, 0, 4))) # filingYear)
             hits == {i \in 1..Len(entries) : accepts(entries[i])}
         IN  IF hits = {} THEN None
             ELSE Some(entries[CHOOSE i \in hits : \A j \in hits : i <= j])

\* buildArchiveBase with the cik zero-padded to ten digits in the key
buildArchiveBasePadded(cik, accessionNumber) ==
    LET accessionPlain == removeDashes(accessionNumber)
        cikNoLeading   == StringOf(NumberOf(cik))
    IN  [basePath |-> <<"/", "A", "r", "c", "h", "i", "v", "e", "s", "/", "e", "d", "g", "a", "r", "/", "d", "a", "t", "a", "/">> \o cikNoLeading \o <<"/">> \o accessionPlain,
         cacheKey |-> padStart(cik, 10) \o <<"-">> \o accessionPlain]

\* buildArchiveBase whose key is the accession number alone
buildArchiveBaseByAccession(cik, accessionNumber) ==
    LET accessionPlain == removeDashes(accessionNumber)
        cikNoLeading   == StringOf(NumberOf(cik))
    IN  [basePath |-> <<"/", "A", "r", "c", "h", "i", "v", "e", "s", "/", "e", "d", "g", "a", "r", "/", "d", "a", "t", "a", "/">> \o cikNoLeading \o <<"/">> \o accessionPlain,
         cacheKey |-> accessionPlain]

\* lines 573-580: buildArchiveBase
buildArchiveBase(cik, accessionNumber) ==
    LET accessionPlain == removeDashes(accessionNumber)
        cikNoLeading   == StringOf(NumberOf(cik))
    IN  [basePath |-> <<"/", "A", "r", "c", "h", "i", "v", "e", "s", "/", "e", "d", "g", "a", "r", "/", "d", "a", "t", "a", "/">> \o cikNoLeading \o <<"/">> \o accessionPlain,
         cacheKey |-> cikNoLeading \o <<"-">> \o accessionPlain]

(***************************************************************************)
(* The upstream host: what the three endpoint families serve.  A fetch of  *)
(* something the host does not serve fails (404); a fetch of something it  *)
(* serves succeeds or fails (429, 5xx, a broken body).                     *)
(***************************************************************************)
\* https://www.sec.gov/files/company_tickers.json: Object.values in order
UpstreamTickers ==
    << [cik_str |-> 320193, ticker |-> <<"A", "A", "P", "L">>, title |-> <<"A", "p", "p", "l", "e", " ", "I", "n", "c", ".">>],
       [cik_str |-> 2012383, ticker |-> <<"B", "L", "K">>, title |-> <<"B", "l", "a", "c", "k", "R", "o", "c", "k", " ", "I", "n", "c", ".">>],
       [cik_str |-> 1045810, ticker |-> <<"N", "V", "D", "A">>, title |-> <<"N", "V", "I", "D", "I", "A", " ", "C", "O", "R", "P">>] >>

\* https://data.sec.gov/submissions/CIK<padded>.json
UpstreamSubmissions ==
    << [padded |-> <<"0", "0", "0", "0", "3", "2", "0", "1", "9", "3">>, name |-> <<"A", "p", "p", "l", "e", " ", "I", "n", "c", ".">>,
        recent |-> Some(<<
          [form |-> <<"1", "0", "-", "K">>, accessionNumber |-> <<"0", "0", "0", "0", "3", "2", "0", "1", "9", "3", "-", "2", "3", "-", "0", "0", "0", "1", "0", "6">>,
           filingDate |-> <<"2", "0", "2", "3", "-", "1", "1", "-", "0", "3">>, reportDate |-> <<"2", "0", "2", "3", "-", "0", "9", "-", "3", "0">>,
           primaryDocument |-> <<"a", "a", "p", "l", "-", "2", "0", "2", "3", ".", "h", "t", "m">>],
          [form |-> <<"8", "-", "K">>, accessionNumber |-> <<"0", "0", "0", "0", "3", "2", "0", "1", "9", "3", "-", "2", "3", "-", "0", "0", "0", "0", "7", "7">>,
           filingDate |-> <<"2", "0", "2", "3", "-", "0", "8", "-", "0", "3">>, reportDate |-> <<>>,
           primaryDocument |-> <<"a", "a", "p", "l", "-", "8", "k", ".", "h", "t", "m">>],
          [form |-> <<"1", "0", "-", "K">>, accessionNumber |-> <<"0", "0", "0", "0", "3", "2", "0", "1", "9", "3", "-", "2", "2", "-", "0", "0", "0", "1", "0", "8">>,
           filingDate |-> <<"2", "0", "2", "2", "-", "1", "0", "-", "2", "8">>, reportDate |-> <<"2", "0", "2", "2", "-", "0", "9", "-", "2", "4">>,
           primaryDocument |-> <<"a", "a", "p", "l", "-", "2", "0", "2", "2", ".", "h", "t", "m">>] >>)],
       [padded |-> <<"0", "0", "0", "0", "1", "0", "2", "9", "0", "9">>, name |-> <<"V", "A", "N", "G", "U", "A", "R", "D", " ", "G", "R", "O", "U", "P", " ", "I", "N", "C">>,
        recent |-> Some(<<
          [form |-> <<"1", "3", "F", "-", "H", "R", "/", "A">>, accessionNumber |-> <<"0", "0", "0", "0", "1", "0", "2", "9", "0", "9", "-", "2", "4", "-", "0", "0", "0", "0", "1", "1">>,
           filingDate |-> <<"2", "0", "2", "4", "-", "0", "2", "-", "1", "4">>, reportDate |-> <<"2", "0", "2", "3", "-", "1", "2", "-", "3", "1">>,
           primaryDocument |-> <<"p", "r", "i", "m", "a", "r", "y", "_", "d", "o", "c", ".", "x", "m", "l">>],
          [form |-> <<"1", "3", "F", "-", "H", "R">>, accessionNumber |-> <<"0", "0", "0", "0", "1", "0", "2", "9", "0", "9", "-", "2", "3", "-", "0", "0", "0", "0", "2", "2">>,
           filingDate |-> <<"2", "0", "2", "3", "-", "1", "1", "-", "1", "4">>, reportDate |-> <<"2", "0", "2", "3", "-", "0", "9", "-", "3", "0">>,
           primaryDocument |-> <<"p", "r", "i", "m", "a", "r", "y", "_", "d", "o", "c", ".", "x", "m", "l">>],
          [form |-> <<"1", "3", "F", "-", "H", "R">>, accessionNumber |-> <<"0", "0", "0", "0", "1", "0", "2", "9", "0", "9", "-", "2", "2", "-", "0", "0", "0", "0", "3", "3">>,
           filingDate |-> <<"2", "0", "2", "2", "-", "1", "1", "-", "1", "4">>, reportDate |-> <<"2", "0", "2", "2", "-", "0", "9", "-", "3", "0">>,
           primaryDocument |-> <<"p", "r", "i", "m", "a", "r", "y", "_", "d", "o", "c", ".", "x", "m", "l">>],
          [form |-> <<"1", "3", "F", "-", "H", "R", "/", "A">>, accessionNumber |-> <<"0", "0", "0", "0", "1", "0", "2", "9", "0", "9", "-", "2", "3", "-", "0", "0", "0", "0", "0", "4">>,
           filingDate |-> <<"2", "0", "2", "3", "-", "0", "1", "-", "1", "0">>, reportDate |-> <<"2", "0", "2", "2", "-", "0", "9", "-", "3", "0">>,
           primaryDocument |-> <<"p", "r", "i", "m", "a", "r", "y", "_", "d", "o", "c", ".", "x", "m", "l">>] >>)],
       [padded |-> <<"0", "0", "0", "1", "3", "6", "4", "7", "4", "2">>, name |-> <<"B", "l", "a", "c", "k", "R", "o", "c", "k", " ", "F", "i", "n", "a", "n", "c", "e", ",", " ", "I", "n", "c", ".">>,
        recent |-> None],
       [padded |-> <<"0", "0", "0", "0", "0", "0", "7", "7", "7", "7">>, name |-> <<>>,
        recent |-> Some(<<
          [form |-> <<"1", "0", "-", "K", "/", "A">>, accessionNumber |-> <<"0", "0", "0", "0", "0", "0", "7", "7", "7", "7", "-", "2", "3", "-", "0", "0", "0", "0", "0", "1">>,
           filingDate |-> <<"2", "0", "2", "3", "-", "0", "3", "-", "0", "1">>, reportDate |-> <<"2", "0", "2", "2", "-", "1", "2", "-", "3", "1">>,
           primaryDocument |-> <<"a", "c", "m", "e", ".", "h", "t", "m">>] >>)] >>

\* the submission history served for a padded cik, None when there is none
submissionsAt(padded) ==
    LET at == {i \in 1..Len(UpstreamSubmissions) : UpstreamSubmissions[i].padded = padded}
    IN  IF at = {} THEN None
        ELSE LET s == UpstreamSubmissions[CHOOSE i \in at : TRUE]
             IN  Some([name |-> s.name, recent |-> s.recent])

\* browse-edgar?company=<name>...&output=atom: the <cik> and
\* <conformed-name> of the body, when the search redirects to one company
UpstreamCgi(name) ==
    IF toLowerCase(trim(name)) = <<"a", "c", "m", "e">>
    THEN [cik |-> Some(<<"0", "0", "0", "0", "0", "0", "7", "7", "7", "7">>), conformedName |-> Some(<<"A", "C", "M", "E", " ", "C", "O", "R", "P">>)]
    ELSE [cik |-> None, conformedName |-> None]

\* the parsed information tables (the output of parser.parse on the XML):
\* the infoTable rows, each with the tags the code reads
Row(issuer, value) == [nameOfIssuer |-> issuer, value |-> value]
Num(n) == [t |-> "number", n |-> n]
NaN == [t |-> "NaN", n |-> 0]
null == [t |-> "null", n |-> 0]
absent == [t |-> "undefined", n |-> 0]

\* /Archives/edgar/data/<cik>/<accession>/: the primary document, the
\* index.json items (None: no index) and the XML files of each filing
UpstreamArchive ==
    << [dir |-> <<"/", "A", "r", "c", "h", "i", "v", "e", "s", "/", "e", "d", "g", "a", "r", "/", "d", "a", "t", "a", "/", "3", "2", "0", "1", "9", "3", "/", "0", "0", "0", "0", "3", "2", "0", "1", "9", "3", "2", "3", "0", "0", "0", "1", "0", "6">>,
        docs |-> << [name |-> <<"a", "a", "p", "l", "-", "2", "0", "2", "3", ".", "h", "t", "m">>,
                     text |-> <<"<", "p", ">", "I", "t", "e", "m", " ", "1", ".", " ", "B", "u", "s", "i", "n", "e", "s", "s", " ", "a", "a", "<", "/", "p", ">", "<", "p", ">", "I", "t", "e", "m", " ", "1", "A", ".", " ", "R", "i", "s", "k", " ", "r", "r", "<", "/", "p", ">", "I", "t", "e", "m", " ", "2", ".", " ", "p", "p", " ", "I", "t", "e", "m", " ", "7", ".", " ", "m", "m", " ", "I", "t", "e", "m", " ", "7", "A", ".", " ", "q", "q", " ", "I", "t", "e", "m", " ", "8", ".", " ", "f", "f", " ", "I", "t", "e", "m", " ", "9", ".", " ", "z", "z">>] >>,
        index |-> None, tables |-> <<>>],
       [dir |-> <<"/", "A", "r", "c", "h", "i", "v", "e", "s", "/", "e", "d", "g", "a", "r", "/", "d", "a", "t", "a", "/", "3", "2", "0", "1", "9", "3", "/", "0", "0", "0", "0", "3", "2", "0", "1", "9", "3", "2", "2", "0", "0", "0", "1", "0", "8">>,
        docs |-> << [name |-> <<"a", "a", "p", "l", "-", "2", "0", "2", "2", ".", "h", "t", "m">>,
                     text |-> <<"<", "s", "t", "y", "l", "e", ">", "p", "{", "}", "<", "/", "s", "t", "y", "l", "e", ">", "I", "t", "e", "m", " ", " ", "1", ".", " ", " ", "B", "u", "s", "i", "n", "e", "s", "s", " ", "a", "a", " ", "<", "b", ">", "I", "T", "E", "M", " ", "1", "A", ".", "<", "/", "b", ">", " ", " ", " ", "r", "r">>] >>,
        index |-> None, tables |-> <<>>],
       [dir |-> <<"/", "A", "r", "c", "h", "i", "v", "e", "s", "/", "e", "d", "g", "a", "r", "/", "d", "a", "t", "a", "/", "1", "0", "2", "9", "0", "9", "/", "0", "0", "0", "0", "1", "0", "2", "9", "0", "9", "2", "4", "0", "0", "0", "0", "1", "1">>,
        docs |-> << [name |-> <<"p", "r", "i", "m", "a", "r", "y", "_", "d", "o", "c", ".", "x", "m", "l">>, text |-> <<"<", "x", ">", "c", "o", "v", "e", "r", "<", "/", "x", ">">>] >>,
        index |-> Some(<< [name |-> <<"p", "r", "i", "m", "a", "r", "y", "_", "d", "o", "c", ".", "x", "m", "l">>, size |-> <<"9", "0", "0">>],
                          [name |-> <<"i", "n", "f", "o", "t", "a", "b", "l", "e", ".", "x", "m", "l">>, size |-> <<"5", "0", "0", "0">>] >>),
        tables |-> << [name |-> <<"i", "n", "f", "o", "t", "a", "b", "l", "e", ".", "x", "m", "l">>,
                       rows |-> << Row("AAA", Num(5)), Row("BBB", Num(50)),
                                   Row("CCC", Num(10)) >>] >>],
       [dir |-> <<"/", "A", "r", "c", "h", "i", "v", "e", "s", "/", "e", "d", "g", "a", "r", "/", "d", "a", "t", "a", "/", "1", "0", "2", "9", "0", "9", "/", "0", "0", "0", "0", "1", "0", "2", "9", "0", "9", "2", "3", "0", "0", "0", "0", "2", "2">>,
        docs |-> << [name |-> <<"p", "r", "i", "m", "a", "r", "y", "_", "d", "o", "c", ".", "x", "m", "l">>, text |-> <<"<", "x", ">", "c", "o", "v", "e", "r", "<", "/", "x", ">">>] >>,
        index |-> Some(<< [name |-> <<"p", "r", "i", "m", "a", "r", "y", "_", "d", "o", "c", ".", "x", "m", "l">>, size |-> <<"9", "0", "0">>],
                          [name |-> <<"9", "-", "i", "n", "d", "e", "x", ".", "x", "m", "l">>, size |-> <<"9", "0", "0", "0">>],
                          [name |-> <<"1", ".", "x", "m", "l">>, size |-> <<"1", "0", "0">>],
                          [name |-> <<"4", "6", "9", "9", "4", ".", "x", "m", "l">>, size |-> <<"3", "0", "0", "0">>] >>),
        tables |-> << [name |-> <<"4", "6", "9", "9", "4", ".", "x", "m", "l">>,
                       rows |-> << Row("DDD", Num(7)), Row("EEE", absent),
                                   Row("FFF", Num(7)), Row("GGG", Num(31)) >>] >>],
       [dir |-> <<"/", "A", "r", "c", "h", "i", "v", "e", "s", "/", "e", "d", "g", "a", "r", "/", "d", "a", "t", "a", "/", "1", "0", "2", "9", "0", "9", "/", "0", "0", "0", "0", "1", "0", "2", "9", "0", "9", "2", "2", "0", "0", "0", "0", "3", "3">>,
        docs |-> << [name |-> <<"p", "r", "i", "m", "a", "r", "y", "_", "d", "o", "c", ".", "x", "m", "l">>, text |-> <<"<", "x", ">", "c", "o", "v", "e", "r", "<", "/", "x", ">">>] >>,
        index |-> Some(<< [name |-> <<"p", "r", "i", "m", "a", "r", "y", "_", "d", "o", "c", ".", "x", "m", "l">>, size |-> <<"9", "0", "0">>] >>),
        tables |-> <<>>],
       [dir |-> <<"/", "A", "r", "c", "h", "i", "v", "e", "s", "/", "e", "d", "g", "a", "r", "/", "d", "a", "t", "a", "/", "1", "0", "2", "9", "0", "9", "/", "0", "0", "0", "0", "1", "0", "2", "9", "0", "9", "2", "3", "0", "0", "0", "0", "0", "4">>,
        docs |-> << [name |-> <<"p", "r", "i", "m", "a", "r", "y", "_", "d", "o", "c", ".", "x", "m", "l">>, text |-> <<"<", "x", ">", "c", "o", "v", "e", "r", "<", "/", "x", ">">>] >>,
        index |-> Some(<< [name |-> <<"p", "r", "i", "m", "a", "r", "y", "_", "d", "o", "c", ".", "x", "m", "l">>, size |-> <<"9", "0", "0">>],
                          [name |-> <<"f", "o", "r", "m", "1", "3", "f", "I", "n", "f", "o", "T", "a", "b", "l", "e", ".", "x", "m", "l">>, size |-> <<"1", "2", "0">>] >>),
        tables |-> << [name |-> <<"f", "o", "r", "m", "1", "3", "f", "I", "n", "f", "o", "T", "a", "b", "l", "e", ".", "x", "m", "l">>, rows |-> <<>>] >>] >>

\* what the archive serves at a url: None when nothing is there
archiveDir(basePath) ==
    LET at == {i \in 1..Len(UpstreamArchive) : UpstreamArchive[i].dir = basePath}
    IN  IF at = {} THEN None ELSE Some(UpstreamArchive[CHOOSE i \in at : TRUE])
archiveFile(files, basePath, url) ==
    LET at == {i \in 1..Len(files) : basePath \o <<"/">> \o files[i].name = url}
    IN  IF at = {} THEN None ELSE Some(files[CHOOSE i \in at : TRUE])
archiveDoc(basePath, url) ==
    IF IsSome(archiveDir(basePath))
    THEN archiveFile(Val(archiveDir(basePath)).docs, basePath, url) ELSE None
archiveIndex(basePath) ==
    IF IsSome(archiveDir(basePath)) THEN Val(archiveDir(basePath)).index ELSE None
archiveTable(basePath, url) ==
    IF IsSome(archiveDir(basePath))
    THEN archiveFile(Val(archiveDir(basePath)).tables, basePath, url) ELSE None

(***************************************************************************)
(* The document extractors (lines 582-654).                                *)
(***************************************************************************)
\* An operator's argument is evaluated each time its body uses it: the
\* extractors first bind a text (CHOOSE out \in {f(text) : text \in {s}}),
\* so that a document is flattened once and then scanned.
\* replace(/<tag[\s\S]*?<\/tag>/gi, " "): each block from an opening
\* "<tag" to the first closing "</tag>" after it becomes one space
RECURSIVE removeBlocks(_, _, _)
removeBlocks(html, open, close) ==
    LET remove(text, lower) ==
          LET i == indexOfFrom(lower, open, 0)
              j == IF i < 0 THEN -1 ELSE indexOfFrom(lower, close, i + Len(open))
          IN  IF i < 0 \/ j < 0 THEN text
              ELSE slice(text, 0, i) \o <<" ">>
                   \o removeBlocks(slice(text, j + Len(close), Len(text)), open, close)
    IN  CHOOSE out \in {remove(text, toLowerCase(text)) : text \in {html}} : TRUE

\* replace(/<[^>]+>/g, " "): "<", at least one character that is not ">", ">"
RECURSIVE removeTags(_)
removeTags(s) ==
    LET remove(text) ==
          LET i == indexOfFrom(text, <<"<">>, 0)
              j == IF i < 0 THEN -1 ELSE indexOfFrom(text, <<">">>, i + 1)
          IN  IF i < 0 \/ j < 0 THEN text
              ELSE IF j = i + 1
                   THEN slice(text, 0, i + 1) \o removeTags(slice(text, i + 1, Len(text)))
                   ELSE slice(text, 0, i) \o <<" ">> \o removeTags(slice(text, j + 1, Len(text)))
    IN  CHOOSE out \in {remove(text) : text \in {s}} : TRUE

\* replace(/\s{min,}/g, " "): every maximal run of at least min white-space
\* characters becomes one space
collapseRuns(s, min) ==
    LET collapse(text) ==
          LET isWs(i)   == text[i] \in WhiteSpace
              first(i)  == CHOOSE j \in 1..i :
                              /\ \A k \in j..i : isWs(k)
                              /\ (j = 1 \/ ~isWs(j - 1))
              last(i)   == CHOOSE j \in i..Len(text) :
                              /\ \A k \in i..j : isWs(k)
                              /\ (j = Len(text) \/ ~isWs(j + 1))
              inRun(i)  == isWs(i) /\ last(i) - first(i) + 1 >= min
              keep(kept) == [n \in 1..Len(kept) |->
                               IF inRun(kept[n]) THEN " " ELSE text[kept[n]]]
          IN  CHOOSE out \in
                {keep(kept) :
                   kept \in {SelectSeq([i \in 1..Len(text) |-> i],
                                       LAMBDA i : ~inRun(i) \/ i = first(i))}} : TRUE
    IN  CHOOSE out \in {collapse(text) : text \in {s}} : TRUE

\* lines 582-589
stripHtml(html) ==
    trim(collapseRuns(removeTags(removeBlocks(removeBlocks(html, <<"<", "s", "c", "r", "i", "p", "t">>, <<"<", "/", "s", "c", "r", "i", "p", "t", ">">>),
                                              <<"<", "s", "t", "y", "l", "e">>, <<"<", "/", "s", "t", "y", "l", "e", ">">>)), 1))

\* SECTION_PATTERNS (lines 207-243).  A pattern /item\s+<lit>/ or
\* /item\s+<lit>\s*<tail>/ is [lit, tail]; next is the list of alternatives.
SECTION_PATTERNS ==
    << [key |-> "business_overview", pattern |-> [lit |-> <<"1", ".">>, tail |-> <<"b", "u", "s", "i", "n", "e", "s", "s">>],
        next |-> << [lit |-> <<"1", "a", ".">>, tail |-> <<>>] >>],
       [key |-> "risk_factors", pattern |-> [lit |-> <<"1", "a", ".">>, tail |-> <<>>],
        next |-> << [lit |-> <<"1", "b", ".">>, tail |-> <<>>], [lit |-> <<"2", ".">>, tail |-> <<>>] >>],
       [key |-> "mdna", pattern |-> [lit |-> <<"7", ".">>, tail |-> <<>>],
        next |-> << [lit |-> <<"7", "a", ".">>, tail |-> <<>>] >>],
       [key |-> "liquidity_and_market_risk", pattern |-> [lit |-> <<"7", "a", ".">>, tail |-> <<>>],
        next |-> << [lit |-> <<"8", ".">>, tail |-> <<>>] >>],
       [key |-> "financial_statements", pattern |-> [lit |-> <<"8", ".">>, tail |-> <<>>],
        next |-> << [lit |-> <<"9", ".">>, tail |-> <<>>] >>] >>

SectionKeys == {SECTION_PATTERNS[i].key : i \in 1..Len(SECTION_PATTERNS)}

\* the length of the match of a pattern at 0-based position i, 0 when it
\* does not match there: "item", white space (one or more), the literal,
\* and for a tail any white space and the tail
matchAt(lower, i, pat) ==
    LET afterItem == slice(lower, i + 4, Len(lower))
        afterWs   == trimStart(afterItem)
        ws        == Len(afterItem) - Len(afterWs)
        afterLit  == slice(afterWs, Len(pat.lit), Len(afterWs))
        afterWs2  == trimStart(afterLit)
        ws2       == Len(afterLit) - Len(afterWs2)
    IN  IF slice(lower, i, i + 4) = <<"i", "t", "e", "m">> /\ ws >= 1 /\ startsWith(afterWs, pat.lit)
        THEN IF pat.tail = <<>> THEN 4 + ws + Len(pat.lit)
             ELSE IF startsWith(afterWs2, pat.tail)
                  THEN 4 + ws + Len(pat.lit) + ws2 + Len(pat.tail)
                  ELSE 0
        ELSE 0

\* String.prototype.match without the g flag: the leftmost match of any of
\* the alternatives, as [index, length]; None when there is none
regexMatch(text, alts) ==
    LET matches(lower, i) == \E a \in 1..Len(alts) : matchAt(lower, i, alts[a]) > 0
        leftmost(lower, hits) ==
          IF hits = {} THEN None
          ELSE LET i == CHOOSE h \in hits : \A g \in hits : h <= g
                   a == CHOOSE b \in 1..Len(alts) :
                          /\ matchAt(lower, i, alts[b]) > 0
                          /\ \A c \in 1..(b - 1) : matchAt(lower, i, alts[c]) = 0
               IN  Some([index |-> i, length |-> matchAt(lower, i, alts[a])])
        matchIn(lower) ==
          CHOOSE out \in
            {leftmost(lower, hits) :
               hits \in {{i \in 0..(Len(lower) - 1) : matches(lower, i)}}} : TRUE
    IN  CHOOSE out \in {matchIn(lower) : lower \in {text}} : TRUE

\* sectionSnippet that ends a section where the text ends
sectionSnippetToEnd(text, section) ==
    LET snippet(lower) ==
          CHOOSE out \in
            {IF IsSome(match)
             THEN Some(trim(collapseRuns(slice(text, Val(match).index, Len(text)), 3)))
             ELSE None :
               match \in {regexMatch(lower, <<section.pattern>>)}} : TRUE
    IN  CHOOSE out \in {snippet(lower) : lower \in {toLowerCase(text)}} : TRUE

\* the body of the forEach of lines 595-612 for one section: None when the
\* start marker does not occur
sectionSnippet(text, section) ==
    LET cut(start, end) == Some(trim(collapseRuns(slice(text, start, end), 3)))
        upTo(lower, match, from) ==
          IF section.next = <<>> THEN cut(match.index, Len(text))
          ELSE CHOOSE out \in
                 {IF IsSome(nextMatch)
                  THEN cut(match.index, from + Val(nextMatch).index)
                  ELSE cut(match.index, Len(text)) :
                    nextMatch \in {regexMatch(slice(lower, from, Len(lower)), section.next)}} :
                 TRUE
        snippet(lower) ==
          CHOOSE out \in
            {IF IsSome(match)
             THEN upTo(lower, Val(match), Val(match).index + Val(match).length)
             ELSE None :
               match \in {regexMatch(lower, <<section.pattern>>)}} : TRUE
    IN  CHOOSE out \in {snippet(lower) : lower \in {toLowerCase(text)}} : TRUE

\* lines 591-615: extractSections, the map from the keys found to their text
extractSections(text) ==
    LET all == 1..Len(SECTION_PATTERNS)
        collect(snippets) ==
          [k \in {SECTION_PATTERNS[i].key : i \in {j \in all : IsSome(snippets[j])}} |->
              Val(snippets[CHOOSE i \in all : SECTION_PATTERNS[i].key = k])]
    IN  CHOOSE out \in
          {collect(snippets) :
             snippets \in {[i \in all |-> sectionSnippet(text, SECTION_PATTERNS[i])] \o <<>>}} :
          TRUE

\* Object.fromEntries(Object.entries(sections).filter(([key]) =>
\* includeSections.includes(key))) (lines 725-729, 827-831)
filterSections(sections, includeSections) ==
    LET wanted == {includeSections[i] : i \in 1..Len(includeSections)}
    IN  [k \in (DOMAIN sections) \cap wanted |-> sections[k]]

\* Number(x) of a parsed tag value, and (x || 0)
toNumber(raw) == IF raw.t = "number" THEN raw ELSE NaN
orZero(v) == IF v.t = "number" THEN v.n ELSE 0

\* lines 617-654: parseInformationTable on the parsed rows
parseInformationTable(rows) ==
    [i \in 1..Len(rows) |->
        [nameOfIssuer |-> rows[i].nameOfIssuer, value |-> toNumber(rows[i].value)]]

\* Array.prototype.sort with a comparator (b.k - a.k): a stable sort of
\* [k, x] pairs, descending in k
RECURSIVE insertDesc(_, _)
insertDesc(sorted, p) ==
    IF sorted = <<>> THEN <<p>>
    ELSE IF p.k > Head(sorted).k THEN <<p>> \o sorted
         ELSE <<Head(sorted)>> \o insertDesc(Tail(sorted), p)
RECURSIVE sortDesc(_)
sortDesc(pairs) ==
    IF pairs = <<>> THEN <<>>
    ELSE insertDesc(sortDesc(SubSeq(pairs, 1, Len(pairs) - 1)), pairs[Len(pairs)])

\* line 804: sort((a, b) => (b.value || 0) - (a.value || 0))
sortHoldings(holdings) ==
    LET sorted == sortDesc([i \in 1..Len(holdings) |->
                              [k |-> orZero(holdings[i].value), x |-> holdings[i]]])
    IN  [i \in 1..Len(sorted) |-> sorted[i].x]

\* lines 796-800: the stats; totalValueMillions is kept in hundredths, the
\* two decimals of toFixed(2)
sumValues(holdings) ==
    LET RECURSIVE sum(_)
        sum(s) == IF s = <<>> THEN 0 ELSE orZero(Head(s).value) + sum(Tail(s))
    IN  sum(holdings)
\* line 799: Number((totalValue / 1000).toFixed(2)), in hundredths, for a
\* total below 100. toFixed rounds the double totalValue / 1000 to the
\* nearest hundredth; the quotient of a total that ends in 5 is not a tie as
\* a double, and those of 15, 45 and 75 lie below the midpoint.
toFixed2(totalValue) ==
    IF totalValue \in {15, 45, 75} THEN totalValue \div 10
    ELSE (totalValue + 5) \div 10

holdingsStatsOf(holdings) ==
    [totalPositions |-> Len(holdings),
     totalValueMillionsX100 |-> toFixed2(sumValues(holdings))]

\* lines 765-786: the information-table file of the index, None when no
\* item qualifies
selectInfoItem(items, primaryDocument) ==
    LET sizeOf(item) == IF TruthyStr(item.size) /\ IsSome(NumberOf(item.size))
                        THEN Val(NumberOf(item.size)) ELSE 0
        byName == {i \in 1..Len(items) :
                      \/ includes(toLowerCase(items[i].name), <<"i", "n", "f", "o", "t", "a", "b", "l", "e">>)
                      \/ includes(toLowerCase(items[i].name), <<"i", "n", "f", "o", "r", "m", "a", "t", "i", "o", "n", "t", "a", "b", "l", "e">>)}
        by13f  == {i \in 1..Len(items) :
                      /\ includes(toLowerCase(items[i].name), <<"1", "3", "f">>)
                      /\ endsWith(items[i].name, <<".", "x", "m", "l">>)
                      /\ items[i].name # primaryDocument}
        others == SelectSeq(items, LAMBDA item :
                      /\ endsWith(item.name, <<".", "x", "m", "l">>)
                      /\ item.name # primaryDocument
                      /\ ~includes(item.name, <<"-", "i", "n", "d", "e", "x">>))
        sorted == sortDesc([i \in 1..Len(others) |-> [k |-> sizeOf(others[i]), x |-> others[i]]])
        first(set) == items[CHOOSE i \in set : \A j \in set : i <= j]
    IN  IF byName # {} THEN Some(first(byName))
        ELSE IF by13f # {} THEN Some(first(by13f))
        ELSE IF sorted # <<>> THEN Some(sorted[1].x)
        ELSE None

(***************************************************************************)
(* secFetch: the rate gate (lines 259-266) and the response (275-283).     *)
(***************************************************************************)
minDelay == 150

\* lines 261-266 when no wait is needed: the check and the assignment of
\* lastRequestTime run in one synchronous segment.
GatePass(c) ==
    /\ gate[c].pc = "idle"
    /\ clock - lastRequestTime >= minDelay
    /\ lastRequestTime' = clock
    /\ dispatched' = Append(dispatched, clock)
    /\ gate' = [gate EXCEPT ![c].pc = "fetching", ![c].wakeAt = 0, ![c].sent = @ + 1]
    /\ UNCHANGED clock
    /\ UNCHANGED <<pipeVars, extractVars>>

\* lines 261-264: timeSinceLast < minDelay, the caller suspends on
\* wait(minDelay - timeSinceLast).
GateSuspend(c) ==
    /\ gate[c].pc = "idle"
    /\ clock - lastRequestTime < minDelay
    /\ gate' = [gate EXCEPT ![c].pc = "waiting",
                             ![c].wakeAt = clock + (minDelay - (clock - lastRequestTime)),
                             ![c].waits = @ + 1]
    /\ UNCHANGED <<clock, lastRequestTime, dispatched>>
    /\ UNCHANGED <<pipeVars, extractVars>>

\* a secFetch that looks at the gate again when its timer has fired, and
\* waits again when another request was dispatched in the meantime
GateWakeRechecks(c) ==
    /\ gate[c].pc = "waiting"
    /\ clock >= gate[c].wakeAt
    /\ IF clock - lastRequestTime < minDelay
       THEN /\ gate' = [gate EXCEPT ![c].wakeAt = clock + (minDelay - (clock - lastRequestTime)),
                                    ![c].waits = @ + 1]
            /\ UNCHANGED <<lastRequestTime, dispatched>>
       ELSE /\ lastRequestTime' = clock
            /\ dispatched' = Append(dispatched, clock)
            /\ gate' = [gate EXCEPT ![c].pc = "fetching", ![c].wakeAt = 0, ![c].sent = @ + 1]
    /\ UNCHANGED clock
    /\ UNCHANGED <<pipeVars, extractVars>>

\* line 266 after the timer fired: lastRequestTime = Date.now(), with no
\* second look at the gate. A timer fires at its deadline or later.
GateWake(c) ==
    /\ gate[c].pc = "waiting"
    /\ clock >= gate[c].wakeAt
    /\ lastRequestTime' = clock
    /\ dispatched' = Append(dispatched, clock)
    /\ gate' = [gate EXCEPT ![c].pc = "fetching", ![c].wakeAt = 0, ![c].sent = @ + 1]
    /\ UNCHANGED clock
    /\ UNCHANGED <<pipeVars, extractVars>>

\* what the host may answer: a status and a body. The body of n characters
\* is the digits 1, 2, ..., 9, 0, 1, ... so that its parts can be told apart.
bodyOf(n) == [i \in 1..n |-> DigitChars[(i % 10) + 1]]
Responses ==
    { [status |-> 200, body |-> bodyOf(0)],
      [status |-> 404, body |-> bodyOf(9)],
      [status |-> 503, body |-> bodyOf(150)] }

\* response.ok
isOk(response) == response.status >= 200 /\ response.status <= 299

\* line 279: the message of the Error
failureMessage(response) ==
    <<"S", "E", "C", " ", "r", "e", "q", "u", "e", "s", "t", " ", "f", "a", "i", "l", "e", "d", " ", "(">> \o NatToStr(response.status) \o <<")", ":", " ">>
        \o slice(response.body, 0, 140)

\* GateRespond that goes back to the gate after a non-2xx response
GateRespondRetries(c) ==
    /\ gate[c].pc = "fetching"
    /\ \/ \E response \in Responses :
            gate' = IF isOk(response)
                    THEN [gate EXCEPT ![c].pc = "returned", ![c].response = Some(response)]
                    ELSE [gate EXCEPT ![c].pc = "idle"]
       \/ gate' = [gate EXCEPT ![c].pc = "threw", ![c].error = Some(<<"f", "e", "t", "c", "h", " ", "f", "a", "i", "l", "e", "d">>)]
    /\ UNCHANGED <<clock, lastRequestTime, dispatched>>
    /\ UNCHANGED <<pipeVars, extractVars>>

\* lines 275-282: fetch settles. A response that is ok is returned; a
\* non-2xx response has its body read and the Error of line 279 thrown; a
\* fetch that rejects (no response) throws its own error.
GateRespond(c) ==
    /\ gate[c].pc = "fetching"
    /\ \/ \E response \in Responses :
            gate' = IF isOk(response)
                    THEN [gate EXCEPT ![c].pc = "returned", ![c].response = Some(response)]
                    ELSE [gate EXCEPT ![c].pc = "threw", ![c].response = Some(response),
                                      ![c].error = Some(failureMessage(response))]
       \/ gate' = [gate EXCEPT ![c].pc = "threw", ![c].error = Some(<<"f", "e", "t", "c", "h", " ", "f", "a", "i", "l", "e", "d">>)]
    /\ UNCHANGED <<clock, lastRequestTime, dispatched>>
    /\ UNCHANGED <<pipeVars, extractVars>>

\* time passes: up to MaxClock, and beyond it for as long as a timer is
\* still to fire
Tick ==
    /\ \/ clock + TickMs <= MaxClock
       \/ \E c \in Callers : gate[c].pc = "waiting" /\ gate[c].wakeAt > clock
    /\ clock' = clock + TickMs
    /\ UNCHANGED <<lastRequestTime, gate, dispatched>>
    /\ UNCHANGED <<pipeVars, extractVars>>

(***************************************************************************)
(* The calls.  A caller runs one call at a time; each action below is one  *)
(* synchronous segment of the code, from one await to the next.  A segment *)
(* is split in two only where its first part touches no shared state.      *)
(* A fetch (secFetch and the reading of the body) is one step that either  *)
(* delivers what the host serves or throws; the time spent at the gate is  *)
(* SpecGate's subject.  Every dispatched fetch and every file-system call  *)
(* is appended to the caller's log.                                        *)
(***************************************************************************)
Procs == {1, 2}

DefaultLimit == 25

NoRequest ==
    [ticker |-> undefined, cik |-> undefined, companyName |-> undefined,
     formType |-> undefined, filingDate |-> undefined, filingYear |-> None,
     includeSections |-> None, limitHoldings |-> None]

Idle ==
    [pc |-> "idle", op |-> "none", req |-> NoRequest,
     name |-> undefined, formArg |-> undefined, searchRet |-> "none",
     dirRet |-> "none", dirPayload |-> None, directory |-> None,
     candidate |-> None, company |-> None, filing |-> None, base |-> None,
     submissions |-> None, atRead |-> None, sections |-> <<>>,
     informationTableUrl |-> undefined, summary |-> None, payload |-> None,
     result |-> None, log |-> <<>>]

\* the destructuring defaults of lines 685-694
formTypeOf(req) == IF req.formType = undefined THEN f10K ELSE req.formType
limitHoldingsOf(req) ==
    IF IsSome(req.limitHoldings) THEN Val(req.limitHoldings) ELSE DefaultLimit
\* includeSections?.length
wantsSections(req) == IsSome(req.includeSections) /\ Val(req.includeSections) # <<>>

\* x || y on optional strings
orElse(x, y) == IF TruthyStr(x) THEN x ELSE y
\* ticker?.toUpperCase()
upperOpt(s) == IF s = undefined THEN undefined ELSE toUpperCase(s)

Logged(l, event) == [l EXCEPT !.log = Append(@, event)]
Return(l, res) == [l EXCEPT !.pc = "done", !.result = Some(res)]
Throw(l, err) == Return(l, [kind |-> "error", error |-> err])

\* lines 521-523
ResolutionFailure(req) ==
    [type |-> "ResolutionFailure", term |-> orElse(req.companyName, req.ticker)]
\* a rejected fetch: secFetch's "SEC request failed" (lines 276-281), or a
\* network or body error of the same await chain
FetchFailure(what) == [type |-> "FetchFailure", what |-> what]

\* loadTickerDirectory without the test of line 293: tickerMap is not looked at
EnterDirectoryAnew(l, ret) ==
    IF selfHosted
    THEN IF IsSome(tickerFile)
         THEN [Logged(l, "fs:exists:tickers") EXCEPT !.pc = "dirRead", !.dirRet = ret]
         ELSE [Logged(l, "fs:exists:tickers") EXCEPT !.pc = "dirFetch", !.dirRet = ret]
    ELSE [l EXCEPT !.pc = "dirFetch", !.dirRet = ret]

\* lines 293-305: loadTickerDirectory up to its first await.  ret is where
\* the caller continues when the directory is returned.
EnterDirectory(l, ret) ==
    IF IsSome(tickerMap)
    THEN [Logged(l, "dir:memo") EXCEPT !.pc = ret, !.directory = tickerMap]
    ELSE IF selfHosted
         THEN IF IsSome(tickerFile)
              THEN [Logged(l, "fs:exists:tickers") EXCEPT !.pc = "dirRead", !.dirRet = ret]
              ELSE [Logged(l, "fs:exists:tickers") EXCEPT !.pc = "dirFetch", !.dirRet = ret]
         ELSE [l EXCEPT !.pc = "dirFetch", !.dirRet = ret]

\* a throw inside loadTickerDirectory that no caller catches
DirectoryThrowsThrough(l, err) == Throw(l, err)

\* a throw inside loadTickerDirectory: resolveCompany (line 496) lets it
\* escape, searchCompanyByName (lines 379, 413) catches it and goes on to
\* the company search
DirectoryThrows(l, err) ==
    IF l.dirRet = "resolveTicker" THEN Throw(l, err)
    ELSE [l EXCEPT !.pc = "cgi"]

\* the return of searchCompanyByName: to the exported call's caller, or to
\* resolveCompany (lines 509-523), which goes on to fetchCompanySubmissions
\* or throws
SearchReturns(l, value) ==
    IF l.searchRet = "top" THEN Return(l, [kind |-> "search", value |-> value])
    ELSE IF IsSome(value)
         THEN [l EXCEPT !.pc = "submissions",
                        !.company = Some([cik |-> Val(value).cik,
                                          ticker |-> upperOpt(l.req.ticker),
                                          companyName |-> Val(value).companyName])]
         ELSE Throw(l, ResolutionFailure(l.req))

\* line 346
searchTermOf(l) == trim(toLowerCase(l.name))

MayStart(p) ==
    /\ proc[p].pc \in {"idle", "done"}
    /\ started < MaxRequests
    /\ p = 1 \/ concurrent

\* a call of fetchSecFilingSummary(req)
StartSummary(p, req) ==
    /\ MayStart(p)
    /\ proc' = [proc EXCEPT ![p] = [Idle EXCEPT !.pc = "resolve", !.op = "summary", !.req = req]]
    /\ started' = started + 1
    /\ UNCHANGED <<selfHosted, concurrent, tickerMap, tickerFile, disk>>

\* a call of the exported searchCompanyByName(name, formType)
StartSearch(p, name, formType) ==
    /\ MayStart(p)
    /\ proc' = [proc EXCEPT ![p] = [Idle EXCEPT !.pc = "search", !.op = "search",
                                                !.name = name, !.formArg = formType,
                                                !.searchRet = "top"]]
    /\ started' = started + 1
    /\ UNCHANGED <<selfHosted, concurrent, tickerMap, tickerFile, disk>>

\* ResolveCik that returns the cik as supplied
ResolveCikKeepZeros(p) ==
    LET l == proc[p] IN
    /\ l.pc = "resolve"
    /\ TruthyStr(l.req.cik)
    /\ proc' = [proc EXCEPT ![p] =
                  [l EXCEPT !.pc = "submissions",
                            !.company = Some([cik |-> l.req.cik,
                                              ticker |-> upperOpt(l.req.ticker),
                                              companyName |-> undefined])]]
    /\ UNCHANGED <<selfHosted, concurrent, tickerMap, tickerFile, disk, started>>

\* lines 488-493: a cik was supplied
ResolveCik(p) ==
    LET l == proc[p] IN
    /\ l.pc = "resolve"
    /\ TruthyStr(l.req.cik)
    /\ proc' = [proc EXCEPT ![p] =
                  [l EXCEPT !.pc = "submissions",
                            !.company = Some([cik |-> stripLeadingZeros(l.req.cik),
                                              ticker |-> upperOpt(l.req.ticker),
                                              companyName |-> undefined])]]
    /\ UNCHANGED <<selfHosted, concurrent, tickerMap, tickerFile, disk, started>>

\* lines 495-496: a ticker and no cik, the directory is loaded
ResolveTicker(p) ==
    LET l == proc[p] IN
    /\ l.pc = "resolve"
    /\ ~TruthyStr(l.req.cik)
    /\ TruthyStr(l.req.ticker)
    /\ proc' = [proc EXCEPT ![p] = EnterDirectory(Logged(l, "dir:load"), "resolveTicker")]
    /\ UNCHANGED <<selfHosted, concurrent, tickerMap, tickerFile, disk, started>>

\* lines 497-510: the exact lookup of the uppercased ticker, and the name
\* search on companyName || ticker when it misses
ResolveTickerLookup(p) ==
    LET l == proc[p]
        match == directoryGet(Val(l.directory), l.req.ticker)
    IN
    /\ l.pc = "resolveTicker"
    /\ proc' = [proc EXCEPT ![p] =
                  IF IsSome(match)
                  THEN [l EXCEPT !.pc = "submissions",
                                 !.company = Some([cik |-> NatToStr(Val(match).cik_str),
                                                   ticker |-> toUpperCase(Val(match).ticker),
                                                   companyName |-> Val(match).title])]
                  ELSE [l EXCEPT !.pc = "search", !.searchRet = "resolve",
                                 !.name = orElse(l.req.companyName, l.req.ticker),
                                 !.formArg = undefined]]
    /\ UNCHANGED <<selfHosted, concurrent, tickerMap, tickerFile, disk, started>>

\* lines 508-523 with neither cik nor ticker: the name search on
\* companyName, called without a form type, or the failure when no field
\* was supplied
ResolveByName(p) ==
    LET l == proc[p] IN
    /\ l.pc = "resolve"
    /\ ~TruthyStr(l.req.cik)
    /\ ~TruthyStr(l.req.ticker)
    /\ proc' = [proc EXCEPT ![p] =
                  IF TruthyStr(l.req.companyName)
                  THEN [l EXCEPT !.pc = "search", !.searchRet = "resolve",
                                 !.name = l.req.companyName, !.formArg = undefined]
                  ELSE Throw(l, ResolutionFailure(l.req))]
    /\ UNCHANGED <<selfHosted, concurrent, tickerMap, tickerFile, disk, started>>

\* lines 297-303: the snapshot has been read; a snapshot that parses
\* becomes tickerMap, any other is ignored and the registry is fetched
LoadDirRead(p) ==
    LET l == proc[p]
        readable == IsSome(tickerFile) /\ Val(tickerFile).ok
    IN
    /\ l.pc = "dirRead"
    /\ tickerMap' = IF readable THEN Some(Val(tickerFile).data) ELSE tickerMap
    /\ proc' = [proc EXCEPT ![p] =
                  IF readable
                  THEN [Logged(l, "fs:read:tickers") EXCEPT
                           !.pc = l.dirRet, !.directory = Some(Val(tickerFile).data)]
                  ELSE [Logged(l, "fs:read:tickers") EXCEPT !.pc = "dirFetch"]]
    /\ UNCHANGED <<selfHosted, concurrent, tickerFile, disk, started>>

\* LoadDirFetch that clears tickerMap when its own fetch fails
LoadDirFetchClears(p) ==
    LET l == Logged(proc[p], "fetch:tickers")
        loaded == Some(reduceTickers(UpstreamTickers, <<>>))
    IN
    /\ l.pc = "dirFetch"
    /\ \E ok \in BOOLEAN :
         /\ tickerMap' = IF ok THEN loaded ELSE None
         /\ proc' = [proc EXCEPT ![p] =
                       IF ~ok THEN DirectoryThrows(Logged(l, "failed:tickers"), FetchFailure("tickers"))
                       ELSE IF selfHosted
                            THEN [l EXCEPT !.pc = "dirMkdir"]
                            ELSE [l EXCEPT !.pc = l.dirRet, !.directory = loaded]]
    /\ UNCHANGED <<selfHosted, concurrent, tickerFile, disk, started>>

\* lines 305-318: the registry has been fetched and reduced into tickerMap
LoadDirFetch(p) ==
    LET l == Logged(proc[p], "fetch:tickers")
        loaded == Some(reduceTickers(UpstreamTickers, <<>>))
    IN
    /\ l.pc = "dirFetch"
    /\ \E ok \in BOOLEAN :
         /\ tickerMap' = IF ok THEN loaded ELSE tickerMap
         /\ proc' = [proc EXCEPT ![p] =
                       IF ~ok THEN DirectoryThrows(Logged(l, "failed:tickers"), FetchFailure("tickers"))
                       ELSE IF selfHosted
                            THEN [l EXCEPT !.pc = "dirMkdir"]
                            ELSE [l EXCEPT !.pc = l.dirRet, !.directory = loaded]]
    /\ UNCHANGED <<selfHosted, concurrent, tickerFile, disk, started>>

\* lines 318-321: ensureCacheDir is done; JSON.stringify(tickerMap) is
\* evaluated and handed to writeFile
LoadDirMkdir(p) ==
    LET l == Logged(proc[p], "fs:mkdir") IN
    /\ l.pc = "dirMkdir"
    /\ proc' = [proc EXCEPT ![p] = [l EXCEPT !.pc = "dirWrite", !.dirPayload = tickerMap]]
    /\ UNCHANGED <<selfHosted, concurrent, tickerMap, tickerFile, disk, started>>

\* lines 319-326: the snapshot is written and tickerMap is returned
LoadDirWrite(p) ==
    LET l == Logged(proc[p], "fs:write:tickers") IN
    /\ l.pc = "dirWrite"
    /\ tickerFile' = Some([ok |-> TRUE, data |-> Val(l.dirPayload)])
    /\ proc' = [proc EXCEPT ![p] = [l EXCEPT !.pc = l.dirRet, !.directory = tickerMap]]
    /\ UNCHANGED <<selfHosted, concurrent, tickerMap, disk, started>>

\* lines 346-347: a search term of fewer than two characters
SearchTooShort(p) ==
    LET l == proc[p] IN
    /\ l.pc = "search"
    /\ Len(searchTermOf(l)) < 2
    /\ proc' = [proc EXCEPT ![p] = SearchReturns(l, None)]
    /\ UNCHANGED <<selfHosted, concurrent, tickerMap, tickerFile, disk, started>>

\* lines 350-376: step 1, the override table answers
SearchKnown(p) ==
    LET l == proc[p] IN
    /\ l.pc = "search"
    /\ Len(searchTermOf(l)) >= 2
    /\ overrideApplies(l.formArg)
    /\ IsSome(knownLookup(searchTermOf(l)))
    /\ proc' = [proc EXCEPT ![p] =
                  SearchReturns(Logged(l, "known"), knownLookup(searchTermOf(l)))]
    /\ UNCHANGED <<selfHosted, concurrent, tickerMap, tickerFile, disk, started>>

\* lines 378-380: step 2 begins, the directory is loaded
SearchLoadDirectory(p) ==
    LET l == proc[p] IN
    /\ l.pc = "search"
    /\ Len(searchTermOf(l)) >= 2
    /\ ~(overrideApplies(l.formArg) /\ IsSome(knownLookup(searchTermOf(l))))
    /\ proc' = [proc EXCEPT ![p] = EnterDirectory(Logged(l, "dir:load"), "searchDir")]
    /\ UNCHANGED <<selfHosted, concurrent, tickerMap, tickerFile, disk, started>>

\* lines 381-412: the scan of the directory; no match falls to step 3
SearchDirectory(p) ==
    LET l == proc[p]
        match == directoryMatch(Val(l.directory), searchTermOf(l))
    IN
    /\ l.pc = "searchDir"
    /\ proc' = [proc EXCEPT ![p] =
                  IF IsSome(match) THEN SearchReturns(l, match)
                  ELSE [l EXCEPT !.pc = "cgi"]]
    /\ UNCHANGED <<selfHosted, concurrent, tickerMap, tickerFile, disk, started>>

\* SearchCgi that lets a failed company search escape
SearchCgiThrows(p) ==
    LET l == Logged(proc[p], "fetch:cgi") IN
    /\ l.pc = "cgi"
    /\ proc' = [proc EXCEPT ![p] = Throw(Logged(l, "failed:cgi"), FetchFailure("cgi"))]
    /\ UNCHANGED <<selfHosted, concurrent, tickerMap, tickerFile, disk, started>>

\* lines 422-478: step 3, the company search has answered or failed
SearchCgi(p) ==
    LET l == Logged(proc[p], "fetch:cgi")
        candidate == cgiCandidate(UpstreamCgi(l.name), l.name)
    IN
    /\ l.pc = "cgi"
    /\ \E ok \in BOOLEAN :
         proc' = [proc EXCEPT ![p] =
                    IF ~ok THEN SearchReturns(Logged(l, "failed:cgi"), None)
                    ELSE IF ~IsSome(candidate) THEN SearchReturns(l, None)
                    ELSE IF TruthyStr(l.formArg)
                         THEN [l EXCEPT !.pc = "validate", !.candidate = candidate]
                         ELSE SearchReturns(l, candidate)]
    /\ UNCHANGED <<selfHosted, concurrent, tickerMap, tickerFile, disk, started>>

\* SearchValidate that gives up the candidate when its history cannot be fetched
SearchValidateOrNull(p) ==
    LET l == Logged(proc[p], "fetch:validate")
        subs == submissionsAt(padStart(Val(l.candidate).cik, 10))
    IN
    /\ l.pc = "validate"
    /\ \E ok \in BOOLEAN :
         /\ ok => IsSome(subs)
         /\ proc' = [proc EXCEPT ![p] =
                       IF ~ok THEN SearchReturns(Logged(l, "failed:validate"), None)
                       ELSE IF hasForm(Val(subs), l.formArg)
                            THEN SearchReturns(l, l.candidate)
                            ELSE SearchReturns(l, None)]
    /\ UNCHANGED <<selfHosted, concurrent, tickerMap, tickerFile, disk, started>>

\* lines 447-467: the candidate's submission history has answered or failed
SearchValidate(p) ==
    LET l == Logged(proc[p], "fetch:validate")
        subs == submissionsAt(padStart(Val(l.candidate).cik, 10))
    IN
    /\ l.pc = "validate"
    /\ \E ok \in BOOLEAN :
         /\ ok => IsSome(subs)
         /\ proc' = [proc EXCEPT ![p] =
                       IF ~ok THEN SearchReturns(Logged(l, "failed:validate"), l.candidate)
                       ELSE IF hasForm(Val(subs), l.formArg)
                            THEN SearchReturns(l, l.candidate)
                            ELSE SearchReturns(l, None)]
    /\ UNCHANGED <<selfHosted, concurrent, tickerMap, tickerFile, disk, started>>

\* a no-filing-found error that does not name the cik
NoFilingFoundAnonymous(formType, company) ==
    [type |-> "NoFilingFound", formType |-> formType, cik |-> undefined]

\* lines 699-713: the no-filing-found error; the message names the form
\* type and, twice, the cik
NoFilingFound(formType, company) ==
    [type |-> "NoFilingFound", formType |-> formType, cik |-> company.cik]
\* cik.padStart on a cik that is undefined (line 527)
TypeError == [type |-> "TypeError"]

\* path.join(CACHE_ROOT, `${cacheKey}.json`)
cachePathOf(cacheKey) == <<".", "l", "o", "c", "a", "l", "-", "d", "a", "t", "a", "/", "s", "e", "c", "-", "f", "i", "l", "i", "n", "g", "s", "/">> \o cacheKey \o <<".", "j", "s", "o", "n">>

\* JSON.parse(JSON.stringify(payload)): NaN becomes null; a property that
\* is undefined is dropped, which reads back as undefined
jsonNumber(v) == IF v.t = "NaN" THEN null ELSE v
jsonHoldings(holdings) ==
    IF IsSome(holdings)
    THEN Some([i \in 1..Len(Val(holdings)) |->
                 [Val(holdings)[i] EXCEPT !.value = jsonNumber(@)]])
    ELSE None
jsonRoundTrip(payload) == [payload EXCEPT !.holdings = jsonHoldings(@)]

\* the files of the cache directory, as a function from cache keys
NoFiles == [k \in {} |-> None]
fileExists(files, key) == key \in DOMAIN files
filePut(files, key, content) ==
    [k \in (DOMAIN files) \cup {key} |-> IF k = key THEN content ELSE files[k]]

\* lines 813-834: the summary of a cache miss
summaryOf(l, holdings, holdingsStats) ==
    LET req == l.req
        company == Val(l.company)
        filing == Val(l.filing)
    IN  [kind |-> "summary",
         metadata |->
           [companyName |-> orElse(Val(l.submissions).name, orElse(company.companyName, <<"U", "n", "k", "n", "o", "w", "n">>)),
            ticker |-> company.ticker,
            cik |-> company.cik,
            formType |-> formTypeOf(req),
            accessionNumber |-> filing.accessionNumber,
            filingDate |-> filing.filingDate,
            reportDate |-> filing.reportDate,
            primaryDocumentUrl |-> Val(l.base).basePath \o <<"/">> \o filing.primaryDocument,
            informationTableUrl |-> l.informationTableUrl,
            cached |-> FALSE,
            cachePath |-> undefined],
         sections |-> IF wantsSections(req)
                      THEN filterSections(l.sections, Val(req.includeSections))
                      ELSE l.sections,
         holdings |-> holdings,
         holdingsStats |-> holdingsStats,
         fetchedAt |-> None]

\* lines 836-843: the payload is the summary, marked cached and stamped
cachePayloadOf(summary) ==
    [summary EXCEPT !.metadata.cached = TRUE, !.fetchedAt = Some("now")]

\* Finish that hands the payload to the file system in every mode
FinishAlwaysWrites(l, holdings, holdingsStats) ==
    LET summary == summaryOf(l, holdings, holdingsStats) IN
    [l EXCEPT !.pc = "cacheWrite", !.summary = Some(summary),
              !.payload = Some(cachePayloadOf(summary))]

\* lines 813-847: from the summary to writeCache's first await (or to the
\* return, outside self-hosted mode)
Finish(l, holdings, holdingsStats) ==
    LET summary == summaryOf(l, holdings, holdingsStats) IN
    IF selfHosted
    THEN [l EXCEPT !.pc = "cacheWrite", !.summary = Some(summary),
                   !.payload = Some(cachePayloadOf(summary))]
    ELSE Return([l EXCEPT !.summary = Some(summary)], summary)

\* cachedSummaryOf that returns the stored sections whatever was asked for
cachedSummaryAllSections(req, data, filePath) ==
    [data EXCEPT
       !.metadata = [@ EXCEPT !.cached = TRUE, !.cachePath = filePath],
       !.holdings = IF IsSome(@)
                    THEN Some(slice(Val(@), 0,
                                    IF formTypeOf(req) = f13FHR
                                    THEN limitHoldingsOf(req) ELSE Len(Val(@))))
                    ELSE None]

\* lines 721-743: the summary returned on a cache hit
cachedSummaryOf(req, data, filePath) ==
    [data EXCEPT
       !.sections = IF wantsSections(req)
                    THEN filterSections(@, Val(req.includeSections)) ELSE @,
       !.metadata = [@ EXCEPT !.cached = TRUE, !.cachePath = filePath],
       !.holdings = IF IsSome(@)
                    THEN Some(slice(Val(@), 0,
                                    IF formTypeOf(req) = f13FHR
                                    THEN limitHoldingsOf(req) ELSE Len(Val(@))))
                    ELSE None]

\* lines 697-719, 526-531: fetchCompanySubmissions has answered or failed;
\* on an answer the filing is selected and readCache runs to its first await
FetchSubmissions(p) ==
    LET l0 == proc[p]
        company == Val(l0.company)
        l == Logged(l0, "fetch:submissions")
        subs == submissionsAt(padStart(company.cik, 10))
        filing == selectFiling(Val(subs), formTypeOf(l.req), l.req.filingDate, l.req.filingYear)
        base == buildArchiveBase(company.cik, Val(filing).accessionNumber)
        l1 == [l EXCEPT !.submissions = subs, !.filing = filing, !.base = Some(base)]
    IN
    /\ l0.pc = "submissions"
    /\ IF company.cik = undefined
       THEN proc' = [proc EXCEPT ![p] = Throw(l0, TypeError)]
       ELSE \E ok \in BOOLEAN :
              /\ ok => IsSome(subs)
              /\ proc' = [proc EXCEPT ![p] =
                   IF ~ok THEN Throw(Logged(l, "failed:submissions"), FetchFailure("submissions"))
                   ELSE IF ~IsSome(filing)
                        THEN Throw([l EXCEPT !.submissions = subs],
                                   NoFilingFound(formTypeOf(l.req), company))
                   ELSE IF ~selfHosted THEN [l1 EXCEPT !.pc = "primary"]
                   ELSE IF fileExists(disk, base.cacheKey)
                        THEN [Logged(l1, "fs:exists:cache") EXCEPT !.pc = "cacheRead"]
                        ELSE [Logged(l1, "fs:exists:cache") EXCEPT !.pc = "primary"]]
    /\ UNCHANGED <<selfHosted, concurrent, tickerMap, tickerFile, disk, started>>

\* CacheRead that writes the file it has just served back to the cache
CacheReadThenWrite(p) ==
    LET l == Logged(proc[p], "fs:read:cache")
        key == Val(l.base).cacheKey
        file == disk[key]
    IN
    /\ l.pc = "cacheRead"
    /\ proc' = [proc EXCEPT ![p] =
                  IF file.ok
                  THEN [l EXCEPT !.pc = "cacheWrite", !.atRead = Some(file),
                                 !.payload = Some(file.data),
                                 !.summary = Some(cachedSummaryOf(l.req, file.data,
                                                                  cachePathOf(key)))]
                  ELSE [l EXCEPT !.pc = "primary", !.atRead = Some(file)]]
    /\ UNCHANGED <<selfHosted, concurrent, tickerMap, tickerFile, disk, started>>

\* CacheRead that ignores the file and goes on to the primary document
CacheReadRefetch(p) ==
    LET l == Logged(proc[p], "fs:read:cache") IN
    /\ l.pc = "cacheRead"
    /\ proc' = [proc EXCEPT ![p] = [l EXCEPT !.pc = "primary",
                                             !.atRead = Some(disk[Val(l.base).cacheKey])]]
    /\ UNCHANGED <<selfHosted, concurrent, tickerMap, tickerFile, disk, started>>

\* CacheRead that lets the parse error of an unreadable file escape
CacheReadRaises(p) ==
    LET l == Logged(proc[p], "fs:read:cache")
        key == Val(l.base).cacheKey
        file == disk[key]
    IN
    /\ l.pc = "cacheRead"
    /\ proc' = [proc EXCEPT ![p] =
                  IF file.ok
                  THEN Return([l EXCEPT !.atRead = Some(file)],
                              cachedSummaryOf(l.req, file.data, cachePathOf(key)))
                  ELSE Throw([l EXCEPT !.atRead = Some(file)], [type |-> "SyntaxError"])]
    /\ UNCHANGED <<selfHosted, concurrent, tickerMap, tickerFile, disk, started>>

\* lines 661-667, 720-743: the cache file has been read: a file that parses
\* is returned narrowed, any other sends the call on to the primary document
CacheRead(p) ==
    LET l == Logged(proc[p], "fs:read:cache")
        key == Val(l.base).cacheKey
        file == disk[key]
    IN
    /\ l.pc = "cacheRead"
    /\ proc' = [proc EXCEPT ![p] =
                  IF file.ok
                  THEN Return([l EXCEPT !.atRead = Some(file)],
                              cachedSummaryOf(l.req, file.data, cachePathOf(key)))
                  ELSE [l EXCEPT !.pc = "primary", !.atRead = Some(file)]]
    /\ UNCHANGED <<selfHosted, concurrent, tickerMap, tickerFile, disk, started>>

\* lines 747-749: the sections of a served document
sectionsOf(text) == extractSections(stripHtml(text))

\* lines 745-753, 813-847: the primary document has answered or failed
FetchPrimary(p) ==
    LET l == Logged(proc[p], "fetch:primary")
        filing == Val(l.filing)
        basePath == Val(l.base).basePath
        doc == archiveDoc(basePath, basePath \o <<"/">> \o filing.primaryDocument)
    IN
    /\ l.pc = "primary"
    /\ \/ proc' = [proc EXCEPT ![p] = Throw(Logged(l, "failed:primary"), FetchFailure("primary"))]
       \/ /\ IsSome(doc)
          /\ IF formTypeOf(l.req) = f10K
             THEN \E sections \in {sectionsOf(Val(doc).text)} :
                    proc' = [proc EXCEPT ![p] =
                               Finish([Logged(l, "extract:sections") EXCEPT !.sections = sections],
                                      None, None)]
             ELSE IF formTypeOf(l.req) = f13FHR
                  THEN proc' = [proc EXCEPT ![p] = [l EXCEPT !.pc = "index"]]
                  ELSE proc' = [proc EXCEPT ![p] = Finish(l, None, None)]
    /\ UNCHANGED <<selfHosted, concurrent, tickerMap, tickerFile, disk, started>>

\* lines 808-810: the catch of the 13F sub-path, which only warns
Caught(l) == Logged(l, "warn:13F")

\* FetchIndex without the try/catch around it: a failed index fetch escapes
FetchIndexThrows(p) ==
    LET l == Logged(proc[p], "fetch:index") IN
    /\ l.pc = "index"
    /\ proc' = [proc EXCEPT ![p] = Throw(Logged(l, "failed:index"), FetchFailure("index"))]
    /\ UNCHANGED <<selfHosted, concurrent, tickerMap, tickerFile, disk, started>>

\* lines 756-791, 808-811: the file index has answered or failed; the
\* information-table file is chosen and requested, or the sub-path ends
FetchIndex(p) ==
    LET l == Logged(proc[p], "fetch:index")
        basePath == Val(l.base).basePath
        index == archiveIndex(basePath)
        infoItem == selectInfoItem(Val(index), Val(l.filing).primaryDocument)
    IN
    /\ l.pc = "index"
    /\ \E ok \in BOOLEAN :
         /\ ok => IsSome(index)
         /\ proc' = [proc EXCEPT ![p] =
                       IF ~ok THEN Finish(Caught(Logged(l, "failed:index")), None, None)
                       ELSE IF ~IsSome(infoItem) THEN Finish(l, None, None)
                       ELSE [l EXCEPT !.pc = "table",
                                      !.informationTableUrl =
                                          basePath \o <<"/">> \o Val(infoItem).name]]
    /\ UNCHANGED <<selfHosted, concurrent, tickerMap, tickerFile, disk, started>>

\* FetchTable that takes the stats from the rows left after the sort and
\* the cut to limitHoldings
FetchTableStatsOfReturned(p) ==
    LET l == Logged(proc[p], "fetch:table")
        table == archiveTable(Val(l.base).basePath, l.informationTableUrl)
        holdings == parseInformationTable(Val(table).rows)
        limitHoldings == limitHoldingsOf(l.req)
        limited == IF limitHoldings > 0
                   THEN slice(sortHoldings(holdings), 0, limitHoldings)
                   ELSE holdings
        holdingsStats == IF Len(limited) > 0 THEN Some(holdingsStatsOf(limited)) ELSE None
    IN
    /\ l.pc = "table"
    /\ \E outcome \in {"ok", "fetchFails", "parseThrows"} :
         /\ outcome # "fetchFails" => IsSome(table)
         /\ proc' = [proc EXCEPT ![p] =
                       IF outcome = "ok"
                       THEN Finish(Logged(l, "extract:table"), Some(limited), holdingsStats)
                       ELSE IF outcome = "parseThrows"
                            THEN Finish(Caught(Logged(l, "failed:parse")), None, None)
                            ELSE Finish(Caught(Logged(l, "failed:table")), None, None)]
    /\ UNCHANGED <<selfHosted, concurrent, tickerMap, tickerFile, disk, started>>

\* lines 789-811: the information table has answered, failed, or does not
\* parse
FetchTable(p) ==
    LET l == Logged(proc[p], "fetch:table")
        table == archiveTable(Val(l.base).basePath, l.informationTableUrl)
        holdings == parseInformationTable(Val(table).rows)
        holdingsStats == IF Len(holdings) > 0 THEN Some(holdingsStatsOf(holdings)) ELSE None
        limitHoldings == limitHoldingsOf(l.req)
        limited == IF limitHoldings > 0
                   THEN slice(sortHoldings(holdings), 0, limitHoldings)
                   ELSE holdings
    IN
    /\ l.pc = "table"
    /\ \E outcome \in {"ok", "fetchFails", "parseThrows"} :
         /\ outcome # "fetchFails" => IsSome(table)
         /\ proc' = [proc EXCEPT ![p] =
                       IF outcome = "ok"
                       THEN Finish(Logged(l, "extract:table"), Some(limited), holdingsStats)
                       ELSE IF outcome = "parseThrows"
                            THEN Finish(Caught(Logged(l, "failed:parse")), None, None)
                            ELSE Finish(Caught(Logged(l, "failed:table")), None, None)]
    /\ UNCHANGED <<selfHosted, concurrent, tickerMap, tickerFile, disk, started>>

\* writeCache that keeps a 13F-HR summary without holdings out of the cache
CacheWriteUnlessDegraded(p) ==
    LET l == Logged(Logged(proc[p], "fs:mkdir"), "fs:write:cache")
        key == Val(l.base).cacheKey
        degraded == formTypeOf(l.req) = f13FHR /\ Val(l.payload).holdings = None
    IN
    /\ l.pc = "cacheWrite"
    /\ disk' = IF degraded THEN disk
               ELSE filePut(disk, key, [ok |-> TRUE, data |-> jsonRoundTrip(Val(l.payload))])
    /\ proc' = [proc EXCEPT ![p] = Return(IF degraded THEN proc[p] ELSE l, Val(l.summary))]
    /\ UNCHANGED <<selfHosted, concurrent, tickerMap, tickerFile, started>>

\* CacheWrite after which the call returns the payload it has written
CacheWriteReturnsPayload(p) ==
    LET l == Logged(Logged(proc[p], "fs:mkdir"), "fs:write:cache")
        key == Val(l.base).cacheKey
    IN
    /\ l.pc = "cacheWrite"
    /\ disk' = filePut(disk, key, [ok |-> TRUE, data |-> jsonRoundTrip(Val(l.payload))])
    /\ proc' = [proc EXCEPT ![p] = Return(l, Val(l.payload))]
    /\ UNCHANGED <<selfHosted, concurrent, tickerMap, tickerFile, started>>

\* lines 670-680, 845-847: writeCache: the directory is made, the payload
\* is serialised and written, and the summary is returned
CacheWrite(p) ==
    LET l == Logged(Logged(proc[p], "fs:mkdir"), "fs:write:cache")
        key == Val(l.base).cacheKey
    IN
    /\ l.pc = "cacheWrite"
    /\ disk' = filePut(disk, key, [ok |-> TRUE, data |-> jsonRoundTrip(Val(l.payload))])
    /\ proc' = [proc EXCEPT ![p] = Return(l, Val(l.summary))]
    /\ UNCHANGED <<selfHosted, concurrent, tickerMap, tickerFile, started>>

\* the environment: a cache file is damaged on disk (truncated, or
\* overwritten with text that does not parse)
CorruptFile ==
    /\ \E key \in DOMAIN disk :
         /\ disk[key].ok
         /\ disk' = [disk EXCEPT ![key] = [@ EXCEPT !.ok = FALSE]]
    /\ UNCHANGED <<selfHosted, concurrent, tickerMap, tickerFile, proc, started>>

\* the environment: the snapshot of the ticker directory is damaged
CorruptTickerFile ==
    /\ IsSome(tickerFile)
    /\ Val(tickerFile).ok
    /\ tickerFile' = Some([Val(tickerFile) EXCEPT !.ok = FALSE])
    /\ UNCHANGED <<selfHosted, concurrent, tickerMap, disk, proc, started>>

(***************************************************************************)
(* The calls the callers make: the requests of fetchSecFilingSummary and   *)
(* the arguments of searchCompanyByName.                                   *)
(***************************************************************************)
Identifier(ticker, cik, companyName) ==
    [ticker |-> ticker, cik |-> cik, companyName |-> companyName]

Identifiers ==
    { Identifier(undefined, <<"0", "0", "0", "0", "3", "2", "0", "1", "9", "3">>, undefined),
      Identifier(<<"m", "s", "f", "t">>, <<"3", "2", "0", "1", "9", "3">>, <<"V", "a", "n", "g", "u", "a", "r", "d">>),
      Identifier(<<"a", "a", "p", "l">>, undefined, undefined),
      Identifier(undefined, undefined, <<"a", "p", "p", "l", "e", " ", "i", "n", "c", ".">>),
      Identifier(undefined, <<"0", "0", "0", "0", "1", "0", "2", "9", "0", "9">>, undefined),
      Identifier(undefined, undefined, <<" ", "V", "a", "n", "g", "u", "a", "r", "d", " ", "G", "r", "o", "u", "p", " ">>),
      Identifier(undefined, undefined, <<"b", "l", "a", "c", "k", "r", "o", "c", "k">>),
      Identifier(undefined, undefined, <<"A", "c", "m", "e">>),
      Identifier(undefined, undefined, <<"c", "o", "n", "s", "t", "r", "u", "c", "t", "o", "r">>),
      Identifier(<<"z", "z", "z">>, undefined, <<"T", "h", "e", " ", "V", "a", "n", "g", "u", "a", "r", "d", " ", "G", "r", "o", "u", "p">>),
      Identifier(<<"z", "z", "z">>, undefined, undefined),
      Identifier(undefined, <<"0">>, undefined),
      Identifier(undefined, undefined, undefined) }

\* the identifiers that resolve to an entity with 10-K filings, and to one
\* with 13F-HR filings
AnnualFilers == {id \in Identifiers : id.cik \in {<<"0", "0", "0", "0", "3", "2", "0", "1", "9", "3">>, <<"3", "2", "0", "1", "9", "3">>}
                                      \/ id.ticker = <<"a", "a", "p", "l">>
                                      \/ id.companyName = <<"a", "p", "p", "l", "e", " ", "i", "n", "c", ".">>}
HoldingsFilers == {id \in Identifiers : id.cik = <<"0", "0", "0", "0", "1", "0", "2", "9", "0", "9">>
                                        \/ id.companyName = <<" ", "V", "a", "n", "g", "u", "a", "r", "d", " ", "G", "r", "o", "u", "p", " ">>}

Filter(filingDate, filingYear) == [filingDate |-> filingDate, filingYear |-> filingYear]

NoFilter == Filter(undefined, None)
Filters ==
    { NoFilter,
      Filter(undefined, Some(2022)),
      Filter(<<"2", "0", "2", "3", "-", "1", "1", "-", "1", "4", "T", "0", "9", ":", "3", "0", ":", "0", "0", "Z">>, None) }

\* a year that only a report date meets, a date together with a year, and
\* the date of the last entry of the history
CombinedFilters ==
    { Filter(undefined, Some(2023)),
      Filter(<<"2", "0", "2", "3", "-", "1", "1", "-", "1", "4", "T", "0", "9", ":", "3", "0", ":", "0", "0", "Z">>, Some(2022)),
      Filter(<<"2", "0", "2", "3", "-", "1", "1", "-", "1", "4", "T", "0", "9", ":", "3", "0", ":", "0", "0", "Z">>, Some(2023)),
      Filter(<<"2", "0", "2", "3", "-", "0", "1", "-", "1", "0">>, None) }

SectionChoices ==
    { None, Some(<<>>), Some(<<"risk_factors">>), Some(<<"business_overview", "mdna">>) }

LimitChoices == { None, Some(2), Some(0), Some(-1) }

Request(id, formType, filter, includeSections, limitHoldings) ==
    [ticker |-> id.ticker, cik |-> id.cik, companyName |-> id.companyName,
     formType |-> formType,
     filingDate |-> filter.filingDate, filingYear |-> filter.filingYear,
     includeSections |-> includeSections, limitHoldings |-> limitHoldings]

\* every identifier with each form type; the filters and the options are
\* varied on the requests that can reach a filing of the form type
Requests ==
    { Request(id, formType, NoFilter, None, None) :
        id \in Identifiers, formType \in {undefined, f10K, f13FHR} }
    \cup
    { Request(id, undefined, filter, sections, None) :
        id \in AnnualFilers, filter \in Filters, sections \in SectionChoices }
    \cup
    { Request(id, f13FHR, filter, None, limit) :
        id \in HoldingsFilers, filter \in Filters, limit \in LimitChoices }
    \cup
    { Request(id, f13FHR, filter, None, None) :
        id \in HoldingsFilers, filter \in CombinedFilters }

SearchNames ==
    { <<" ", "V", "a", "n", "g", "u", "a", "r", "d", " ", "G", "r", "o", "u", "p", " ">>, <<"v", "a", "n", "g", "u", "a", "r", "d", " ", "g", "r", "o", "u", "p", " ", "h", "o", "l", "d", "i", "n", "g", "s">>, <<"B", "l", "a", "c", "k", "R", "o", "c", "k">>,
      <<"a", "p", "p", "l", "e", " ", "i", "n", "c", ".">>, <<"A", "c", "m", "e">>, <<"c", "o", "n", "s", "t", "r", "u", "c", "t", "o", "r">>, <<"z", "z", "z">>, <<"a">>,
      <<"i", "n", "c", ".">>, <<"i", "a">>, <<"N", "v", "i", "d", "i", "a", " ", "C", "o", "r", "p", " ", "H", "o", "l", "d", "i", "n", "g", "s">> }

SearchFormTypes == { undefined, f10K, f13FHR }

(***************************************************************************)
(* Initial state and specifications.                                       *)
(***************************************************************************)
InitGate ==
    /\ clock = StartClock
    /\ lastRequestTime = 0
    /\ gate = [c \in Callers |-> [pc |-> "idle", wakeAt |-> 0, waits |-> 0,
                                   sent |-> 0, response |-> None, error |-> None]]
    /\ dispatched = <<>>

InitPipe ==
    /\ selfHosted \in BOOLEAN
    /\ concurrent = FALSE
    /\ tickerMap = None
    /\ tickerFile = None
    /\ disk = NoFiles
    /\ proc = [p \in Procs |-> Idle]
    /\ started = 0

\* no call of extractSections on its own
InitExtract ==
    /\ document = <<>>
    /\ extracted = None
    /\ keyInputs = <<>>
    /\ cacheKeys = None

Init == InitGate /\ InitPipe /\ InitExtract

NextGate ==
    \/ Tick
    \/ \E c \in Callers : GatePass(c)
    \/ \E c \in Callers : GateSuspend(c)
    \/ \E c \in Callers : GateWake(c)
    \/ \E c \in Callers : GateRespond(c)

SpecGate == Init /\ [][NextGate]_vars

\* the gate under the scheduling of the event loop: time passes, a timer
\* whose deadline has come fires, and a call that has been made runs its
\* first segment
SpecGateFair ==
    /\ Init
    /\ [][NextGate]_vars
    /\ WF_vars(Tick)
    /\ \A c \in Callers :
         /\ WF_vars(GatePass(c))
         /\ WF_vars(GateSuspend(c))
         /\ WF_vars(GateWake(c))

NextPipe ==
    \/ \E p \in Procs, req \in Requests : StartSummary(p, req)
    \/ \E p \in Procs, name \in SearchNames, formType \in SearchFormTypes :
         StartSearch(p, name, formType)
    \/ \E p \in Procs : ResolveCik(p)
    \/ \E p \in Procs : ResolveTicker(p)
    \/ \E p \in Procs : ResolveTickerLookup(p)
    \/ \E p \in Procs : ResolveByName(p)
    \/ \E p \in Procs : LoadDirRead(p)
    \/ \E p \in Procs : LoadDirFetch(p)
    \/ \E p \in Procs : LoadDirMkdir(p)
    \/ \E p \in Procs : LoadDirWrite(p)
    \/ \E p \in Procs : SearchTooShort(p)
    \/ \E p \in Procs : SearchKnown(p)
    \/ \E p \in Procs : SearchLoadDirectory(p)
    \/ \E p \in Procs : SearchDirectory(p)
    \/ \E p \in Procs : SearchCgi(p)
    \/ \E p \in Procs : SearchValidate(p)
    \/ \E p \in Procs : FetchSubmissions(p)
    \/ \E p \in Procs : CacheRead(p)
    \/ \E p \in Procs : FetchPrimary(p)
    \/ \E p \in Procs : FetchIndex(p)
    \/ \E p \in Procs : FetchTable(p)
    \/ \E p \in Procs : CacheWrite(p)
    \/ CorruptFile
    \/ CorruptTickerFile

Next == NextPipe /\ UNCHANGED <<gateVars, extractVars>>

Spec == Init /\ [][Next]_vars

(***************************************************************************)
(* Two calls of fetchSecFilingSummary in flight at once in self-hosted     *)
(* mode: each await of one call may be followed by a step of the other.    *)
(***************************************************************************)
RaceRequests ==
    { Request(id, undefined, NoFilter, sections, None) :
        id \in { Identifier(undefined, <<"0", "0", "0", "0", "3", "2", "0", "1", "9", "3">>, undefined),
                 Identifier(<<"a", "a", "p", "l">>, undefined, undefined) },
        sections \in { None, Some(<<"risk_factors">>) } }

InitRace ==
    /\ InitGate
    /\ InitExtract
    /\ selfHosted = TRUE
    /\ concurrent = TRUE
    /\ tickerMap = None
    /\ tickerFile = None
    /\ disk = NoFiles
    /\ proc = [p \in Procs |-> Idle]
    /\ started = 0

NextRace ==
    /\ \/ \E p \in Procs, req \in RaceRequests : StartSummary(p, req)
       \/ \E p \in Procs : ResolveCik(p)
       \/ \E p \in Procs : ResolveTicker(p)
       \/ \E p \in Procs : ResolveTickerLookup(p)
       \/ \E p \in Procs : LoadDirFetch(p)
       \/ \E p \in Procs : LoadDirMkdir(p)
       \/ \E p \in Procs : LoadDirWrite(p)
       \/ \E p \in Procs : FetchSubmissions(p)
       \/ \E p \in Procs : CacheRead(p)
       \/ \E p \in Procs : FetchPrimary(p)
       \/ \E p \in Procs : CacheWrite(p)
    /\ UNCHANGED <<gateVars, extractVars>>

SpecRace == InitRace /\ [][NextRace]_vars

(***************************************************************************)
(* extractSections on its own: one call on a flattened text. The texts are *)
(* the runs of up to MaxSegments segments joined by one space, as          *)
(* stripHtml leaves them; a segment is the heading of an item with a word   *)
(* of body, or a word without a heading.                                   *)
(***************************************************************************)
Segments ==
    { <<"I", "t", "e", "m", " ", "1", ".", " ", "B", "u", "s", "i", "n", "e", "s", "s", " ", "a", "a">>, <<"I", "t", "e", "m", " ", "1", "A", ".", " ", "R", "i", "s", "k", " ", "F", "a", "c", "t", "o", "r", "s", " ", "r", "r">>, <<"I", "t", "e", "m", " ", "1", "B", ".", " ", "U", "n", "r", "e", "s", "o", "l", "v", "e", "d", " ", "u", "u">>,
      <<"I", "T", "E", "M", " ", "2", ".", " ", "P", "r", "o", "p", "e", "r", "t", "i", "e", "s", " ", "p", "p">>, <<"O", "v", "e", "r", "v", "i", "e", "w", " ", "o", "o">> }

Documents ==
    { join(segments, <<" ">>) :
        segments \in UNION {[1..n -> Segments] : n \in 1..MaxSegments} }

InitDocuments ==
    /\ InitGate
    /\ InitPipe
    /\ document \in Documents
    /\ extracted = None
    /\ keyInputs = <<>>
    /\ cacheKeys = None

\* lines 591-615: the call of extractSections(document) returns
ExtractSections ==
    /\ extracted = None
    /\ extracted' = Some(extractSections(document))
    /\ UNCHANGED <<document, keyInputs, cacheKeys, gateVars, pipeVars>>

NextExtract == ExtractSections

SpecExtract == InitDocuments /\ [][NextExtract]_vars

(***************************************************************************)
(* buildArchiveBase on its own: two calls, on two pairs of a cik as        *)
(* resolveCompany returns it (decimal digits, with or without leading      *)
(* zeros) and an accession number in the dashed format of the submission   *)
(* history, ten digits, two digits, six digits.                            *)
(***************************************************************************)
KeyCiks ==
    { <<"3", "2", "0", "1", "9", "3">>, <<"0", "0", "0", "0", "3", "2", "0", "1", "9", "3">>, <<"3", "2", "0", "1", "9">>, <<"3">>, <<"3", "2">>, <<"0", "3">>, <<"0">>, <<"1", "0", "2", "9", "0", "9">>, <<"1", "0", "2", "9", "0", "9", "0">> }

KeyAccessions ==
    { <<"0", "0", "0", "0", "3", "2", "0", "1", "9", "3", "-", "2", "3", "-", "0", "0", "0", "1", "0", "6">>, <<"0", "0", "0", "0", "3", "2", "0", "1", "9", "3", "-", "2", "3", "-", "0", "0", "0", "1", "0", "7">>, <<"0", "0", "0", "0", "3", "2", "0", "1", "9", "3", "-", "2", "2", "-", "0", "0", "0", "1", "0", "6">>,
      <<"2", "0", "0", "0", "0", "0", "0", "0", "0", "0", "-", "0", "0", "-", "0", "0", "0", "0", "0", "1">>, <<"0", "0", "0", "0", "0", "0", "0", "0", "0", "0", "-", "0", "0", "-", "0", "0", "0", "0", "0", "1">>, <<"0", "2", "0", "0", "0", "0", "0", "0", "0", "0", "-", "0", "0", "-", "0", "0", "0", "0", "0", "1">> }

InitKeys ==
    /\ InitGate
    /\ InitPipe
    /\ document = <<>>
    /\ extracted = None
    /\ keyInputs \in (KeyCiks \X KeyAccessions) \X (KeyCiks \X KeyAccessions)
    /\ cacheKeys = None

\* lines 573-580: the two calls of buildArchiveBase return
BuildKeys ==
    /\ cacheKeys = None
    /\ cacheKeys' = Some(<<buildArchiveBase(keyInputs[1][1], keyInputs[1][2]).cacheKey,
                           buildArchiveBase(keyInputs[2][1], keyInputs[2][2]).cacheKey>>)
    /\ UNCHANGED <<document, extracted, keyInputs, gateVars, pipeVars>>

SpecKeys == InitKeys /\ [][BuildKeys]_vars

(***************************************************************************)
(* C1: any two outbound requests are dispatched at least minDelay (150 ms) *)
(* apart, whatever the interleaving of the callers' waits.                 *)
(***************************************************************************)
C1_MinSpacing ==
    \A i, j \in 1..Len(dispatched) :
        i < j => dispatched[j] - dispatched[i] >= minDelay

(***************************************************************************)
(* Observations shared by the claims about fetchSecFilingSummary.          *)
(***************************************************************************)
Has(l, event) == \E i \in 1..Len(l.log) : l.log[i] = event

Returned(l) == l.pc = "done" /\ Val(l.result).kind = "summary"
Raised(l) == l.pc = "done" /\ Val(l.result).kind = "error"

\* the rows parsed from the information table the filing's archive serves
\* at the url the metadata names
tableOf(l, summary) ==
    parseInformationTable(
        Val(archiveTable(Val(l.base).basePath, summary.metadata.informationTableUrl)).rows)

valuesOf(holdings) == [i \in 1..Len(holdings) |-> orZero(holdings[i].value)]

(***************************************************************************)
(* C2: whatever includeSections and limitHoldings the cache-missing        *)
(* request carried, the payload handed to writeCache holds every section   *)
(* extracted from the document and every row parsed from the information   *)
(* table.                                                                  *)
(***************************************************************************)
C2_CacheStoresMaximal ==
    \A p \in Procs :
        LET l == proc[p] IN
        l.pc = "cacheWrite" =>
            /\ Val(l.payload).sections = l.sections
            /\ IsSome(Val(l.payload).holdings) =>
                   Len(Val(Val(l.payload).holdings)) = Len(tableOf(l, Val(l.payload)))

(***************************************************************************)
(* C3: every 13F-HR summary that carries holdings, on a miss and on a hit  *)
(* and for every limitHoldings, carries the limitHoldings highest-value    *)
(* rows of the table in descending order of value.                         *)
(***************************************************************************)
C3_SortedThenLimited ==
    \A p \in Procs :
        LET l == proc[p]
            summary == Val(l.result)
        IN  ( /\ Returned(l)
              /\ formTypeOf(l.req) = f13FHR
              /\ IsSome(summary.holdings) ) =>
                valuesOf(Val(summary.holdings)) =
                    slice(valuesOf(sortHoldings(tableOf(l, summary))), 0,
                          Max(limitHoldingsOf(l.req), 0))

(***************************************************************************)
(* C4: the cache key of a request is the entity's cik without leading      *)
(* zeros, a dash, and the accession number without dashes, however the     *)
(* entity was supplied; a request that selects the filing of a file        *)
(* already in the cache computes that file's key.                          *)
(***************************************************************************)
entityOf(l) == padStart(Val(l.company).cik, 10)

C4_SameKey ==
    \A p \in Procs :
        LET l == proc[p]
            key == Val(l.base).cacheKey
            accession == Val(l.filing).accessionNumber
        IN  IsSome(l.base) =>
              /\ key = stripLeadingZeros(entityOf(l)) \o <<"-">> \o removeDashes(accession)
              /\ \A k \in DOMAIN disk :
                    ( /\ padStart(disk[k].data.metadata.cik, 10) = entityOf(l)
                      /\ disk[k].data.metadata.accessionNumber = accession ) => k = key

\* a request by ticker alone is served the file that a request without a
\* ticker (by cik or by name) wrote
C4_Witness ==
    \E p \in Procs :
        LET l == proc[p] IN
        /\ Returned(l)
        /\ l.req.cik = undefined
        /\ l.req.ticker = <<"a", "a", "p", "l">>
        /\ Val(l.result).metadata.cached
        /\ Val(l.result).metadata.ticker = undefined

(***************************************************************************)
(* C5: in self-hosted mode a request that selects a filing whose cache     *)
(* file exists and is readable goes on to read that file and returns its   *)
(* content: it fetches neither the primary document, the index nor the     *)
(* information table, and runs neither extractor.                          *)
(***************************************************************************)
FetchesOrExtracts(l) ==
    \/ Has(l, "fetch:primary") \/ Has(l, "fetch:index") \/ Has(l, "fetch:table")
    \/ Has(l, "extract:sections") \/ Has(l, "extract:table")

C5_ServedFromCache ==
    [][\A p \in Procs :
         LET l == proc[p]
             after == proc'[p]
             key == Val(after.base).cacheKey
         IN  ( /\ selfHosted
               /\ l.pc \in {"submissions", "cacheRead"}
               /\ after.pc # l.pc
               /\ IsSome(after.base)
               /\ fileExists(disk, key)
               /\ disk[key].ok ) =>
                 \/ l.pc = "submissions" /\ after.pc = "cacheRead"
                 \/ /\ l.pc = "cacheRead"
                    /\ Returned(after)
                    /\ Val(after.result).metadata.cached
                    /\ Val(after.result).metadata.accessionNumber =
                           Val(after.filing).accessionNumber
                    /\ ~FetchesOrExtracts(after)]_vars

C5_Witness ==
    \E p \in Procs :
        LET l == proc[p] IN
        /\ selfHosted
        /\ Returned(l)
        /\ IsSome(l.atRead) /\ Val(l.atRead).ok
        /\ Val(l.result).metadata.cached
        /\ ~FetchesOrExtracts(l)

(***************************************************************************)
(* C6: on a 13F-HR cache miss, a failed index fetch, an index in which no  *)
(* file qualifies, a failed information-table fetch and a table that does  *)
(* not parse all end in a returned summary with its metadata and without   *)
(* holdings.                                                               *)
(***************************************************************************)
NoFileSelected(l) ==
    Has(l, "fetch:index") /\ ~Has(l, "failed:index") /\ ~Has(l, "fetch:table")

SubPathFailed(l) ==
    /\ l.pc \in {"cacheWrite", "done"}
    /\ \/ Has(l, "failed:index")
       \/ NoFileSelected(l)
       \/ Has(l, "failed:table")
       \/ Has(l, "failed:parse")

C6_SubPathDegrades ==
    \A p \in Procs :
        LET l == proc[p]
            summary == Val(l.summary)
        IN  SubPathFailed(l) =>
              /\ IsSome(l.summary)
              /\ summary.holdings = None
              /\ summary.holdingsStats = None
              /\ summary.metadata.formType = f13FHR
              /\ summary.metadata.accessionNumber = Val(l.filing).accessionNumber
              /\ summary.metadata.cik = Val(l.company).cik
              /\ l.pc = "done" => Returned(l) /\ Val(l.result) = summary

C6_Witness ==
    \E p \in Procs :
        LET l == proc[p] IN
        /\ Returned(l)
        /\ Has(l, "failed:table")
        /\ Val(l.result).holdings = None
        /\ Val(l.result).metadata.informationTableUrl # undefined

(***************************************************************************)
(* C7 as stated: every error fetchSecFilingSummary raises is the           *)
(* resolution failure or the no-filing-found failure.                      *)
(***************************************************************************)
errorOf(l) == Val(l.result).error

lastOf(l) == IF l.log = <<>> THEN "none" ELSE l.log[Len(l.log)]

TouchesCache(l) ==
    Has(l, "fs:exists:cache") \/ Has(l, "fs:read:cache") \/ Has(l, "fs:write:cache")

C8_NoFilingFound ==
    \A p \in Procs :
        LET l == proc[p] IN
        ( /\ l.op = "summary"
          /\ IsSome(l.submissions)
          /\ ~IsSome(selectFiling(Val(l.submissions), formTypeOf(l.req),
                                  l.req.filingDate, l.req.filingYear)) ) =>
            /\ Raised(l)
            /\ errorOf(l).type = "NoFilingFound"
            /\ errorOf(l).formType = formTypeOf(l.req)
            /\ errorOf(l).cik = Val(l.company).cik
            /\ lastOf(l) = "fetch:submissions"
            /\ ~TouchesCache(l)
            /\ ~FetchesOrExtracts(l)
            /\ l.summary = None

C8_Witness ==
    \E p \in Procs :
        LET l == proc[p] IN
        /\ Raised(l)
        /\ errorOf(l).type = "NoFilingFound"
        /\ errorOf(l).formType = f13FHR
        /\ errorOf(l).cik = <<"3", "2", "0", "1", "9", "3">>
        /\ selfHosted
        /\ DOMAIN disk # {}

(***************************************************************************)
(* C9: a supplied cik is resolved to itself without its leading zeros      *)
(* ("0000320193" gives "320193"), whatever ticker and companyName come     *)
(* with it, without loading the ticker directory, consulting the override  *)
(* table or issuing a request.                                             *)
(***************************************************************************)
ResolutionEvents ==
    {"dir:load", "dir:memo", "known", "fetch:tickers", "failed:tickers",
     "fs:exists:tickers", "fs:read:tickers", "fs:write:tickers",
     "fetch:cgi", "failed:cgi", "fetch:validate", "failed:validate"}

C9_CikStripped ==
    \A p \in Procs :
        LET l == proc[p] IN
        (l.op = "summary" /\ TruthyStr(l.req.cik) /\ l.pc # "resolve") =>
            /\ IsSome(l.company)
            /\ Val(l.company).cik = stripLeadingZeros(l.req.cik)
            /\ l.req.cik = <<"0", "0", "0", "0", "3", "2", "0", "1", "9", "3">> => Val(l.company).cik = <<"3", "2", "0", "1", "9", "3">>
            /\ \A i \in 1..Len(l.log) : l.log[i] \notin ResolutionEvents
            /\ l.pc = "submissions" => l.log = <<>>

C9_Witness ==
    \E p \in Procs :
        LET l == proc[p] IN
        /\ l.pc = "submissions"
        /\ l.req.cik = <<"0", "0", "0", "0", "3", "2", "0", "1", "9", "3">>
        /\ Val(l.company).cik = <<"3", "2", "0", "1", "9", "3">>
        /\ l.log = <<>>

(***************************************************************************)
(* C10: for a name that is a key of KNOWN_13F_FILERS once lowercased and   *)
(* trimmed, and a form type of 13F-HR or none, searchCompanyByName returns *)
(* the curated cik and name in one step that issues no request and does    *)
(* not load the ticker directory.                                          *)
(***************************************************************************)
curated(term) ==
    LET i == CHOOSE i \in 1..Len(KNOWN_13F_FILERS) : KNOWN_13F_FILERS[i].key = term
    IN  [cik |-> KNOWN_13F_FILERS[i].cik, companyName |-> KNOWN_13F_FILERS[i].name]

C10_OverrideOffline ==
    [][\A p \in Procs :
         LET l == proc[p]
             after == proc'[p]
             entry == curated(searchTermOf(l))
         IN  ( /\ l.pc = "search"
               /\ searchTermOf(l) \in KnownKeys
               /\ l.formArg \in {undefined, f13FHR}
               /\ after.pc # "search" ) =>
                 /\ after.log = Append(l.log, "known")
                 /\ tickerMap' = tickerMap
                 /\ tickerFile' = tickerFile
                 /\ IF l.searchRet = "top"
                    THEN after.pc = "done"
                         /\ Val(after.result) = [kind |-> "search", value |-> Some(entry)]
                    ELSE /\ after.pc = "submissions"
                         /\ Val(after.company).cik = entry.cik
                         /\ Val(after.company).companyName = entry.companyName]_vars

C10_Witness ==
    \E p \in Procs :
        LET l == proc[p] IN
        /\ l.op = "search"
        /\ l.pc = "done"
        /\ l.name = <<" ", "V", "a", "n", "g", "u", "a", "r", "d", " ", "G", "r", "o", "u", "p", " ">>
        /\ l.formArg = f13FHR
        /\ l.log = <<"known">>
        /\ Val(l.result).value =
               Some([cik |-> <<"1", "0", "2", "9", "0", "9">>, companyName |-> <<"V", "A", "N", "G", "U", "A", "R", "D", " ", "G", "R", "O", "U", "P", " ", "I", "N", "C">>])

(***************************************************************************)
(* C11: a call whose form type is 10-K never resolves its entity through   *)
(* KNOWN_13F_FILERS: neither searchCompanyByName(name, "10-K") nor         *)
(* fetchSecFilingSummary with formType 10-K (supplied or by default),      *)
(* which resolves through resolveCompany.                                  *)
(***************************************************************************)
C11_OverrideOnlyFor13F ==
    \A p \in Procs :
        LET l == proc[p] IN
        ( \/ l.op = "search" /\ l.formArg = f10K
          \/ l.op = "summary" /\ formTypeOf(l.req) = f10K ) => ~Has(l, "known")

(***************************************************************************)
(* C12: resolveCompany raises the resolution failure only when every       *)
(* strategy that applies to the supplied fields ran without a match (the   *)
(* cik, the ticker's directory entry, the override table, the directory    *)
(* titles, the company search); it returns the match whenever a strategy   *)
(* has one for the supplied fields, stated here for the two strategies     *)
(* whose match does not depend on an upstream answer, the supplied cik and *)
(* the override table; and the failure names companyName, or the ticker    *)
(* when no companyName was given.                                          *)
(***************************************************************************)
C12_ExhaustedOrResolved ==
    \A p \in Procs :
        LET l == proc[p]
            req == l.req
            named == TruthyStr(req.companyName) \/ TruthyStr(req.ticker)
            term == trim(toLowerCase(orElse(req.companyName, req.ticker)))
            registry == reduceTickers(UpstreamTickers, <<>>)
            overridden == named /\ Len(term) >= 2 /\ IsSome(knownLookup(term))
        IN  (l.op = "summary" /\ l.pc = "done") =>
              /\ (Raised(l) /\ errorOf(l).type = "ResolutionFailure") =>
                   /\ ~TruthyStr(req.cik)
                   /\ TruthyStr(req.ticker) => ~IsSome(directoryGet(registry, req.ticker))
                   /\ ~overridden
                   /\ (named /\ Len(term) >= 2) =>
                        /\ Has(l, "failed:tickers") \/ ~IsSome(directoryMatch(registry, term))
                        /\ Has(l, "failed:cgi")
                             \/ ~IsSome(cgiCandidate(UpstreamCgi(l.name), l.name))
                   /\ errorOf(l).term = orElse(req.companyName, req.ticker)
              /\ (TruthyStr(req.cik) \/ overridden) => IsSome(l.company)

(***************************************************************************)
(* Observations shared by the claims about selectFiling: the entries of a  *)
(* call's submission history in upstream order, and whether an entry       *)
(* passes the form, the date and the year filter of the request.           *)
(***************************************************************************)
historyOf(l) ==
    IF IsSome(Val(l.submissions).recent) THEN Val(Val(l.submissions).recent) ELSE <<>>

formPasses(entry, req) ==
    IF formTypeOf(req) = f13FHR THEN entry.form \in {f13FHR, f13FHRA}
    ELSE entry.form = formTypeOf(req)

datePasses(entry, req) ==
    TruthyStr(req.filingDate) => entry.filingDate = slice(req.filingDate, 0, 10)

reportYearPasses(entry, req) ==
    /\ entry.reportDate # undefined
    /\ NumberOf(slice(entry.reportDate, 0, 4)) = req.filingYear

yearPasses(entry, req) ==
    TruthyNum(req.filingYear) =>
        \/ NumberOf(slice(entry.filingDate, 0, 4)) = req.filingYear
        \/ reportYearPasses(entry, req)

passes(entry, req) ==
    formPasses(entry, req) /\ datePasses(entry, req) /\ yearPasses(entry, req)

(***************************************************************************)
(* C13: the filing a call selects is the earliest entry of the submission  *)
(* history, in the order of its arrays, that passes all the filters, and   *)
(* none when no entry passes; selecting again from the same history with   *)
(* the same filters gives the same entry.                                  *)
(***************************************************************************)
C13_EarliestMatch ==
    \A p \in Procs :
        LET l == proc[p]
            req == l.req
            entries == historyOf(l)
            passing == {i \in 1..Len(entries) : passes(entries[i], req)}
        IN  (l.op = "summary" /\ IsSome(l.submissions)) =>
              /\ IF passing = {} THEN l.filing = None
                 ELSE /\ IsSome(l.filing)
                      /\ \E i \in passing :
                           /\ \A j \in passing : i <= j
                           /\ Val(l.filing) = entries[i]
              /\ selectFiling(Val(l.submissions), formTypeOf(req),
                              req.filingDate, req.filingYear) = l.filing

\* a filing was selected although an earlier entry of the form was rejected
\* by a filter and a later entry passes too
C13_Witness ==
    \E p \in Procs :
        LET l == proc[p]
            req == l.req
            entries == historyOf(l)
        IN  /\ l.op = "summary" /\ IsSome(l.submissions) /\ IsSome(l.filing)
            /\ \E i, j, k \in 1..Len(entries) :
                 /\ i < j /\ j < k
                 /\ formPasses(entries[i], req) /\ ~passes(entries[i], req)
                 /\ entries[j] = Val(l.filing)
                 /\ passes(entries[k], req)

(***************************************************************************)
(* C20: the filters of selectFiling are conjoined.  The selected entry has *)
(* a form of the requested type, its filing date is the first ten          *)
(* characters of filingDate when one is given, and its filing-date year or *)
(* its report-date year is filingYear when one is given; and when an entry *)
(* of the form passes the date filter and has the report-date year         *)
(* filingYear, whatever its filing-date year, the call selects a filing.   *)
(***************************************************************************)
C20_FiltersConjoined ==
    \A p \in Procs :
        LET l == proc[p]
            req == l.req
            entries == historyOf(l)
        IN  (l.op = "summary" /\ IsSome(l.submissions)) =>
              /\ IsSome(l.filing) =>
                   /\ formPasses(Val(l.filing), req)
                   /\ datePasses(Val(l.filing), req)
                   /\ yearPasses(Val(l.filing), req)
              /\ ( \E i \in 1..Len(entries) :
                     /\ formPasses(entries[i], req)
                     /\ datePasses(entries[i], req)
                     /\ TruthyNum(req.filingYear)
                     /\ reportYearPasses(entries[i], req) ) => IsSome(l.filing)

\* the selected entry was filed in another year than filingYear and is
\* accepted by its report date
C20_Witness ==
    \E p \in Procs :
        LET l == proc[p]
            req == l.req
        IN  /\ l.op = "summary" /\ IsSome(l.submissions) /\ IsSome(l.filing)
            /\ TruthyNum(req.filingYear)
            /\ NumberOf(slice(Val(l.filing).filingDate, 0, 4)) # req.filingYear
            /\ reportYearPasses(Val(l.filing), req)

(***************************************************************************)
(* C14: outside self-hosted mode no call reads, creates or writes a file:  *)
(* the cache directory and the ticker snapshot stay as they were, no call  *)
(* performs a file-system operation, and every summary returned has        *)
(* metadata.cached = false.                                                *)
(***************************************************************************)
C14_NoFilesOutsideSelfHosted ==
    ~selfHosted =>
        /\ disk = NoFiles
        /\ tickerFile = None
        /\ \A p \in Procs :
             LET l == proc[p] IN
             /\ \A i \in 1..Len(l.log) :
                  l.log[i] \notin {"fs:exists:tickers", "fs:read:tickers", "fs:mkdir",
                                   "fs:write:tickers", "fs:exists:cache", "fs:read:cache",
                                   "fs:write:cache"}
             /\ Returned(l) => /\ Val(l.result).metadata.cached = FALSE
                               /\ Val(l.result).metadata.cachePath = undefined

\* outside self-hosted mode the second call of the process has loaded
\* nothing from a file: it took the directory from memory and fetched the
\* document again
C14_Witness ==
    /\ ~selfHosted
    /\ started = 2
    /\ IsSome(tickerMap)
    /\ \E p \in Procs :
         LET l == proc[p] IN
         /\ Returned(l)
         /\ Has(l, "dir:memo")
         /\ Has(l, "fetch:primary")
         /\ Val(l.result).metadata.cached = FALSE

(***************************************************************************)
(* C15: a cache hit of a request with a non-empty includeSections returns  *)
(* a sections map with exactly the stored keys that are in                 *)
(* includeSections, each with its stored text, and leaves the stored file  *)
(* as it was.                                                              *)
(***************************************************************************)
C15_HitFiltersView ==
    [][ \A p \in Procs :
          ( /\ proc[p].pc = "cacheRead"
            /\ proc'[p].pc = "done"
            /\ wantsSections(proc[p].req) ) =>
              LET stored == disk[Val(proc[p].base).cacheKey].data.sections
                  asked == Val(proc[p].req.includeSections)
                  sections == Val(proc'[p].result).sections
              IN  /\ DOMAIN sections =
                       {k \in DOMAIN stored : \E i \in 1..Len(asked) : asked[i] = k}
                  /\ \A k \in DOMAIN sections : sections[k] = stored[k]
                  /\ disk' = disk ]_vars

\* a hit on a file that stores all five sections, by a request for
\* risk_factors alone: the summary has that one key and the file still has
\* the five
C15_Witness ==
    \E p \in Procs :
        LET l == proc[p] IN
        /\ Returned(l)
        /\ Has(l, "fs:read:cache")
        /\ l.req.includeSections = Some(<<"risk_factors">>)
        /\ DOMAIN Val(l.atRead).data.sections = SectionKeys
        /\ DOMAIN Val(l.result).sections = {"risk_factors"}
        /\ disk[Val(l.base).cacheKey] = Val(l.atRead)

(***************************************************************************)
(* C16: once a call of loadTickerDirectory has returned the directory,     *)
(* every call that enters it later returns tickerMap from memory, with no  *)
(* request and no disk read, and no step assigns tickerMap again.  As      *)
(* stated this fails when a second call was already inside                 *)
(* loadTickerDirectory before the first one assigned tickerMap;            *)
(* C16_LaterCallsFromMemory keeps the part about the calls that enter      *)
(* later and lets a call that entered earlier assign the same content.     *)
(***************************************************************************)
C16_LoadedOnce ==
    [][ (\E q \in Procs : IsSome(proc[q].directory)) =>
          /\ tickerMap' = tickerMap
          /\ \A p \in Procs :
               \* the assignments of lines 298 and 307
               /\ ~( /\ proc[p].pc = "dirRead"
                     /\ proc'[p].pc = proc[p].dirRet )
               /\ ~( /\ proc[p].pc = "dirFetch"
                     /\ proc'[p].pc \in {"dirMkdir", proc[p].dirRet} )
               \* a call that enters loadTickerDirectory
               /\ ( /\ proc[p].pc \in {"resolve", "search"}
                    /\ proc'[p].pc \notin {"resolve", "search", "done", "submissions"}
                    /\ Has(proc'[p], "dir:load") ) =>
                      /\ lastOf(proc'[p]) = "dir:memo"
                      /\ proc'[p].directory = tickerMap ]_vars

C16_LaterCallsFromMemory ==
    [][ /\ IsSome(tickerMap) => tickerMap' = tickerMap
        /\ \A p \in Procs :
             LET l == proc[p]
                 after == proc'[p]
             IN  \* a call that enters loadTickerDirectory once tickerMap is set
                 /\ ( /\ IsSome(tickerMap)
                      /\ l.pc = "resolve"
                      /\ after.pc \notin {"resolve", "done", "submissions"} ) =>
                        /\ after.pc = "resolveTicker"
                        /\ after.log = l.log \o <<"dir:load", "dir:memo">>
                        /\ after.directory = tickerMap
                        /\ tickerFile' = tickerFile
                 \* an assignment to a tickerMap that is set is made by a call
                 \* that found it unset when it entered
                 /\ ( /\ IsSome(tickerMap)
                      /\ l.pc = "dirFetch"
                      /\ after.pc = "dirMkdir" ) =>
                        /\ Has(l, "dir:load")
                        /\ ~Has(l, "dir:memo") ]_vars

\* one call fetched the registry; the call that entered afterwards was
\* answered from memory
C16_Witness ==
    \E p, q \in Procs :
        /\ Has(proc[p], "fetch:tickers")
        /\ proc[q].log = <<"dir:load", "dir:memo">>
        /\ proc[q].pc = "resolveTicker"
        /\ proc[q].directory = tickerMap
        /\ IsSome(tickerMap)

(***************************************************************************)
(* C18: in self-hosted mode the cache file of a key is written once: after *)
(* the first write of a key no step of any request, however the requests   *)
(* interleave, writes the file again or changes what it holds.             *)
(***************************************************************************)
C18_WrittenOnce ==
    [][ \A key \in DOMAIN disk :
          /\ disk'[key] = disk[key]
          /\ \A p \in Procs :
               ~( /\ proc[p].pc = "cacheWrite"
                  /\ proc'[p].pc = "done"
                  /\ Val(proc[p].base).cacheKey = key ) ]_vars

(***************************************************************************)
(* C17: the steps of a fetchSecFilingSummary run come in the order         *)
(* ResolveEntity, FetchHistory, SelectFiling, CheckCache and then          *)
(* ServeFromCache or FetchAndExtract, never both; WriteCache comes only    *)
(* after FetchAndExtract and never on the ServeFromCache branch.  Read on  *)
(* the record of a run: everything before the submission-history request   *)
(* is resolution and nothing after it is; the cache is checked directly    *)
(* after the history answered, with a filing selected; the file is read    *)
(* directly after the check; the primary document is requested only after  *)
(* the check (in self-hosted mode) and at most once; the write is the last *)
(* step, after the document, of a run that was not served from the cache.  *)
(***************************************************************************)
C17_PipelineOrder ==
    \A p \in Procs :
        LET l == proc[p]
            at(event) == {i \in 1..Len(l.log) : l.log[i] = event}
            first(event) == CHOOSE i \in at(event) : \A j \in at(event) : i <= j
            once(event) == Cardinality(at(event)) <= 1
            served == Returned(l) /\ Val(l.result).metadata.cached
        IN  l.op = "summary" =>
              /\ once("fetch:submissions") /\ once("fs:exists:cache")
              /\ once("fs:read:cache") /\ once("fetch:primary") /\ once("fs:write:cache")
              /\ \A i \in 1..Len(l.log) :
                   IF at("fetch:submissions") = {} \/ i < first("fetch:submissions")
                   THEN l.log[i] \in ResolutionEvents \cup {"fs:mkdir"}
                   ELSE l.log[i] \notin ResolutionEvents
              /\ Has(l, "fetch:submissions") => IsSome(l.company)
              /\ Has(l, "fs:exists:cache") =>
                   /\ first("fs:exists:cache") = first("fetch:submissions") + 1
                   /\ IsSome(l.filing)
              /\ Has(l, "fs:read:cache") =>
                   first("fs:read:cache") = first("fs:exists:cache") + 1
              /\ Has(l, "fetch:primary") =>
                   /\ Has(l, "fetch:submissions") /\ IsSome(l.filing)
                   /\ selfHosted => /\ Has(l, "fs:exists:cache")
                                    /\ first("fs:exists:cache") < first("fetch:primary")
              /\ Has(l, "fs:write:cache") =>
                   /\ first("fs:write:cache") = Len(l.log)
                   /\ Has(l, "fetch:primary")
                   /\ ~Has(l, "failed:primary")
                   /\ ~served
              /\ Returned(l) =>
                   /\ selfHosted => Has(l, "fs:exists:cache")
                   /\ served <=> ~Has(l, "fetch:primary")
                   /\ served => Has(l, "fs:read:cache")

\* the second run of the process, by cik, was served from the file the
\* first run wrote at the end of its pipeline, and stopped at the read
C17_Witness ==
    /\ started = 2
    /\ \E p \in Procs :
         LET l == proc[p] IN
         /\ Returned(l)
         /\ l.log = <<"fetch:submissions", "fs:exists:cache", "fs:read:cache">>
         /\ Val(l.result).metadata.cached
         /\ disk[Val(l.base).cacheKey].ok

(***************************************************************************)
(* C19: the directory step of searchCompanyByName answers with the first   *)
(* entry, in the directory's order, that has the highest score, where the  *)
(* score of an entry is Infinity when its lowercased title equals the      *)
(* search term, else the length of the search term when the title contains *)
(* it, else the length of the title when the search term contains it, else *)
(* 0; it answers only when that score is at least 3, and goes on to the    *)
(* company search otherwise.                                               *)
(***************************************************************************)
C19_FirstBestEntry ==
    [][ \A p \in Procs :
          (proc[p].pc = "searchDir" /\ proc'[p] # proc[p]) =>
            LET l == proc[p]
                term == searchTermOf(l)
                directory == Val(l.directory)
                title(i) == toLowerCase(directory[i].entry.title)
                score(i) == IF title(i) = term THEN Infinity
                            ELSE IF includes(title(i), term) THEN Len(term)
                            ELSE IF includes(term, title(i)) THEN Len(title(i))
                            ELSE 0
                highest == {i \in 1..Len(directory) :
                              \A j \in 1..Len(directory) : score(j) <= score(i)}
                winner == CHOOSE i \in highest : \A j \in highest : i <= j
            IN  IF highest # {} /\ score(winner) >= 3
                THEN proc'[p] =
                       SearchReturns(l, Some([cik |-> NatToStr(directory[winner].entry.cik_str),
                                              companyName |-> directory[winner].entry.title]))
                ELSE proc'[p].pc = "cgi" /\ proc'[p].result = None ]_vars

\* "inc." is contained in the titles of two entries, which tie at score 4:
\* the search answered with the first of them
C19_Witness ==
    \E p \in Procs :
        LET l == proc[p] IN
        /\ l.op = "search" /\ l.pc = "done"
        /\ l.name = <<"i", "n", "c", ".">>
        /\ Val(l.result).value =
             Some([cik |-> <<"3", "2", "0", "1", "9", "3">>, companyName |-> <<"A", "p", "p", "l", "e", " ", "I", "n", "c", ".">>])

(***************************************************************************)
(* C21: a request for 13F-HR selects only an entry whose form is exactly   *)
(* 13F-HR or 13F-HR/A, and a request for 10-K only an entry whose form is  *)
(* exactly 10-K; an unfiltered request selects a filing exactly when the   *)
(* history has an entry with one of these forms.                           *)
(***************************************************************************)
C21_ExactForms ==
    \A p \in Procs :
        LET l == proc[p]
            entries == historyOf(l)
            forms == {entries[i].form : i \in 1..Len(entries)}
            unfiltered == ~TruthyStr(l.req.filingDate) /\ ~TruthyNum(l.req.filingYear)
        IN  (l.op = "summary" /\ IsSome(l.submissions)) =>
              IF formTypeOf(l.req) = f13FHR
              THEN /\ IsSome(l.filing) => Val(l.filing).form \in {<<"1", "3", "F", "-", "H", "R">>, <<"1", "3", "F", "-", "H", "R", "/", "A">>}
                   /\ unfiltered =>
                        (IsSome(l.filing) <=> forms \cap {<<"1", "3", "F", "-", "H", "R">>, <<"1", "3", "F", "-", "H", "R", "/", "A">>} # {})
              ELSE /\ formTypeOf(l.req) = <<"1", "0", "-", "K">>
                   /\ IsSome(l.filing) => Val(l.filing).form = <<"1", "0", "-", "K">>
                   /\ unfiltered => (IsSome(l.filing) <=> <<"1", "0", "-", "K">> \in forms)

\* a 13F-HR request selected an amendment, 13F-HR/A
C21_Witness ==
    \E p \in Procs :
        LET l == proc[p] IN
        /\ l.op = "summary" /\ IsSome(l.filing)
        /\ l.req.formType = <<"1", "3", "F", "-", "H", "R">>
        /\ Val(l.filing).form = <<"1", "3", "F", "-", "H", "R", "/", "A">>

(***************************************************************************)
(* C22: when the lowercased, trimmed name is not a key of the override     *)
(* table and the form type is 13F-HR or none, searchCompanyByName returns  *)
(* the entry of the longest whitespace-delimited word prefix that is a     *)
(* key, and goes on to the directory step only when no prefix is a key.    *)
(***************************************************************************)
keyedPrefixes(term) ==
    LET words == splitWs(term)
    IN  {n \in 1..Len(words) : join(SubSeq(words, 1, n), <<" ">>) \in KnownKeys}

longestKeyedPrefix(term) ==
    LET n == CHOOSE n \in keyedPrefixes(term) : \A m \in keyedPrefixes(term) : m <= n
    IN  join(SubSeq(splitWs(term), 1, n), <<" ">>)

C22_LongestPrefix ==
    [][\A p \in Procs :
         LET l == proc[p]
             after == proc'[p]
             term == searchTermOf(l)
         IN  ( /\ l.pc = "search"
               /\ after # l
               /\ Len(term) >= 2
               /\ term \notin KnownKeys
               /\ overrideApplies(l.formArg) ) =>
                 IF keyedPrefixes(term) # {}
                 THEN /\ after.log = Append(l.log, "known")
                      /\ IF l.searchRet = "top"
                         THEN Val(after.result).value = Some(curated(longestKeyedPrefix(term)))
                         ELSE /\ Val(after.company).cik = curated(longestKeyedPrefix(term)).cik
                              /\ Val(after.company).companyName =
                                     curated(longestKeyedPrefix(term)).companyName
                 ELSE ~Has(after, "known")]_vars

(***************************************************************************)
(* C23: when searchCompanyByName has a form type and the company search    *)
(* gave a candidate, the step that validates it returns the candidate if   *)
(* a form of its submission history starts with the form type, null if the *)
(* history was fetched and no form starts with it, and the unverified      *)
(* candidate if the fetch of the history failed.                           *)
(***************************************************************************)
formsFiledBy(cik) ==
    LET subs == submissionsAt(padStart(cik, 10))
    IN  IF IsSome(subs) /\ IsSome(Val(subs).recent)
        THEN {Val(Val(subs).recent)[i].form : i \in 1..Len(Val(Val(subs).recent))}
        ELSE {}

beginsWith(form, formType) ==
    Len(form) >= Len(formType) /\ SubSeq(form, 1, Len(formType)) = formType

C23_CandidateValidated ==
    [][\A p \in Procs :
         LET l == proc[p]
             after == proc'[p]
         IN  (l.pc = "validate" /\ after # l) =>
               /\ TruthyStr(l.formArg)
               /\ IsSome(l.candidate)
               /\ after.pc = "done"
               /\ Val(after.result).kind = "search"
               /\ Val(after.result).value =
                    IF Has(after, "failed:validate") THEN l.candidate
                    ELSE IF \E form \in formsFiledBy(Val(l.candidate).cik) :
                               beginsWith(form, l.formArg)
                         THEN l.candidate
                         ELSE None]_vars

\* the candidate was accepted for 10-K on the strength of a 10-K/A entry
C23_Witness ==
    \E p \in Procs :
        LET l == proc[p] IN
        /\ l.op = "search" /\ l.pc = "done"
        /\ l.formArg = <<"1", "0", "-", "K">>
        /\ Has(l, "fetch:validate") /\ ~Has(l, "failed:validate")
        /\ IsSome(l.candidate)
        /\ <<"1", "0", "-", "K">> \notin formsFiledBy(Val(l.candidate).cik)
        /\ Val(l.result).value = l.candidate

(***************************************************************************)
(* C24: searchCompanyByName never raises. Every step inside it either goes *)
(* on inside it, or returns: an exported call ends with a value, which is  *)
(* null when the directory scan and the company search end without a       *)
(* candidate, also when the directory load or the search request failed;   *)
(* inside resolveCompany a candidate goes on to the submissions and null   *)
(* becomes the resolution failure, the only error such a step can end in.  *)
(***************************************************************************)
inSearch(l) ==
    \/ l.pc \in {"search", "searchDir", "cgi", "validate"}
    \/ l.pc \in {"dirRead", "dirFetch", "dirMkdir", "dirWrite"} /\ l.dirRet = "searchDir"

C24_SearchNeverRaises ==
    [][\A p \in Procs :
         LET l == proc[p]
             after == proc'[p]
             exhausted == lastOf(after) = "failed:cgi"
         IN  (inSearch(l) /\ after # l) =>
               \/ inSearch(after)
               \/ /\ l.searchRet = "top"
                  /\ after.pc = "done"
                  /\ Val(after.result).kind = "search"
                  /\ exhausted => Val(after.result).value = None
               \/ /\ l.searchRet = "resolve"
                  /\ after.pc = "submissions"
                  /\ IsSome(after.company)
                  /\ ~exhausted
               \/ /\ l.searchRet = "resolve"
                  /\ after.pc = "done"
                  /\ Val(after.result) = [kind |-> "error", error |-> ResolutionFailure(l.req)]]_vars

\* an exported call returned null after both the directory load and the
\* company search had failed
C24_Witness ==
    \E p \in Procs :
        LET l == proc[p] IN
        /\ l.op = "search" /\ l.pc = "done"
        /\ Has(l, "failed:tickers") /\ Has(l, "failed:cgi")
        /\ Val(l.result) = [kind |-> "search", value |-> None]

(***************************************************************************)
(* C25: in self-hosted mode a cache file that exists but does not parse is *)
(* read without an error and the call goes on to the primary document as   *)
(* on a miss: it ends only by the failure of that fetch or by returning a  *)
(* summary with metadata.cached = false after writing the file again.      *)
(***************************************************************************)
C25_UnreadableIsMiss ==
    [][\A p \in Procs :
         LET l == proc[p]
             after == proc'[p]
             key == Val(l.base).cacheKey
         IN  /\ ( /\ l.pc = "cacheRead"
                  /\ after # l
                  /\ ~disk[key].ok ) =>
                    /\ selfHosted
                    /\ after.pc = "primary"
                    /\ after.log = Append(l.log, "fs:read:cache")
                    /\ after.result = None
             /\ ( /\ IsSome(l.atRead)
                  /\ ~Val(l.atRead).ok
                  /\ l.pc # "done"
                  /\ after.pc = "done" ) =>
                    \/ Raised(after) /\ lastOf(after) = "failed:primary"
                    \/ /\ Returned(after)
                       /\ ~Val(after.result).metadata.cached
                       /\ Has(after, "fetch:primary")
                       /\ lastOf(after) = "fs:write:cache"
                       /\ disk'[key] =
                            [ok |-> TRUE,
                             data |-> jsonRoundTrip(cachePayloadOf(Val(after.result)))]]_vars

\* the second call found the file of its key damaged and wrote it again
C25_Witness ==
    \E p \in Procs :
        LET l == proc[p] IN
        /\ selfHosted
        /\ Returned(l)
        /\ IsSome(l.atRead) /\ ~Val(l.atRead).ok
        /\ ~Val(l.result).metadata.cached
        /\ Has(l, "fetch:primary")
        /\ disk[Val(l.base).cacheKey].ok

(***************************************************************************)
(* C26: a call of secFetch dispatches exactly one request: none before it  *)
(* has passed the gate, one from then on, also after it has returned or    *)
(* thrown, so nothing is retried. A response outside 200..299 ends the     *)
(* call with an error whose message carries the status and the first 140   *)
(* characters of the body, or the whole body when it is shorter.           *)
(***************************************************************************)
previewOf(body) == [i \in 1..(IF Len(body) < 140 THEN Len(body) ELSE 140) |-> body[i]]

C26_OneRequestAndPreview ==
    /\ Len(dispatched) = Cardinality({c \in Callers : gate[c].sent = 1})
    /\ \A c \in Callers :
         LET g == gate[c] IN
         /\ g.sent = (IF g.pc \in {"idle", "waiting"} THEN 0 ELSE 1)
         /\ g.pc = "returned" =>
               /\ IsSome(g.response)
               /\ Val(g.response).status \in 200..299
               /\ g.error = None
         /\ (IsSome(g.response) /\ Val(g.response).status \notin 200..299) =>
               /\ g.pc = "threw"
               /\ g.error = Some(<<"S", "E", "C", " ", "r", "e", "q", "u", "e", "s", "t", " ", "f", "a", "i", "l", "e", "d", " ", "(">> \o NatToStr(Val(g.response).status)
                                 \o <<")", ":", " ">> \o previewOf(Val(g.response).body))
               /\ Len(Val(g.error)) <= 166

\* one call threw on a body longer than the preview, another on a shorter one
C26_Witness ==
    \E c, d \in Callers :
        /\ gate[c].pc = "threw" /\ gate[c].sent = 1
        /\ IsSome(gate[c].response) /\ Len(Val(gate[c].response).body) > 140
        /\ Len(Val(gate[c].error)) = 166
        /\ gate[d].pc = "threw" /\ gate[d].sent = 1
        /\ IsSome(gate[d].response) /\ Len(Val(gate[d].response).body) < 140

(***************************************************************************)
(* C27: on a 13F-HR cache miss holdingsStats is present exactly when the   *)
(* information table was fetched and parsed to at least one row. Then      *)
(* totalPositions is the number of rows of the table, whatever              *)
(* limitHoldings leaves of them, and totalValueMillions is the sum of the  *)
(* rows' values divided by 1000, to the nearest hundredth.                 *)
(***************************************************************************)
servedRows(l, summary) ==
    Val(archiveTable(Val(l.base).basePath, summary.metadata.informationTableUrl)).rows

RECURSIVE totalOf(_)
totalOf(rows) ==
    IF rows = <<>> THEN 0
    ELSE (IF Head(rows).value.t = "number" THEN Head(rows).value.n ELSE 0) + totalOf(Tail(rows))

C27_HoldingsStats ==
    \A p \in Procs :
        LET l == proc[p]
            summary == Val(l.result)
            stats == Val(summary.holdingsStats)
            parsed == Has(l, "extract:table")
        IN  ( /\ Returned(l)
              /\ formTypeOf(l.req) = f13FHR
              /\ ~summary.metadata.cached ) =>
                /\ IsSome(summary.holdingsStats) <=>
                       (parsed /\ Len(servedRows(l, summary)) >= 1)
                /\ IsSome(summary.holdingsStats) =>
                     /\ stats.totalPositions = Len(servedRows(l, summary))
                     /\ 10 * stats.totalValueMillionsX100 - totalOf(servedRows(l, summary))
                            \in -5..5

\* four rows were parsed, two were returned, and the total of 45 thousand
\* became 0.04 million
C27_Witness ==
    \E p \in Procs :
        LET l == proc[p]
            summary == Val(l.result)
        IN  /\ Returned(l)
            /\ ~summary.metadata.cached
            /\ IsSome(summary.holdingsStats) /\ IsSome(summary.holdings)
            /\ l.req.limitHoldings = Some(2)
            /\ Len(Val(summary.holdings)) = 2
            /\ Val(summary.holdingsStats) = [totalPositions |-> 4, totalValueMillionsX100 |-> 4]

(***************************************************************************)
(* C28: in a flattened text where "Item 1. Business" is followed by        *)
(* "Item 1A." and then "Item 2.", business_overview runs from the business *)
(* marker up to that "Item 1A." marker and risk_factors from that same     *)
(* marker up to "Item 2.", each trimmed; a section whose start marker does *)
(* not occur is absent.  As stated this fails on a text that mentions      *)
(* "Item 1A." before the business marker, or has "Item 1B." before         *)
(* "Item 2."; C28_SectionsAbut adds that the first "Item 1A." of the text  *)
(* comes after the business marker and that no "Item 1B." comes between it *)
(* and "Item 2.".                                                          *)
(***************************************************************************)
\* the 0-based index of the first occurrence of a marker at or after from,
\* -1 when there is none
firstAt(lower, marker, from) ==
    LET hits == {i \in from..(Len(lower) - Len(marker)) :
                    SubSeq(lower, i + 1, i + Len(marker)) = marker}
    IN  IF hits = {} THEN -1 ELSE CHOOSE i \in hits : \A j \in hits : i <= j

businessAt(lower) == firstAt(lower, <<"i", "t", "e", "m", " ", "1", ".", " ", "b", "u", "s", "i", "n", "e", "s", "s">>, 0)
riskAfter(lower, from) == firstAt(lower, <<"i", "t", "e", "m", " ", "1", "a", ".">>, from)
item2After(lower, from) == firstAt(lower, <<"i", "t", "e", "m", " ", "2", ".">>, from)
item1bAfter(lower, from) == firstAt(lower, <<"i", "t", "e", "m", " ", "1", "b", ".">>, from)

\* the text holds the three markers in the order of the claim
inOrder(lower) ==
    /\ businessAt(lower) >= 0
    /\ riskAfter(lower, businessAt(lower)) >= 0
    /\ item2After(lower, riskAfter(lower, businessAt(lower))) >= 0

abutAt(text, sections, b, a, t) ==
    /\ "business_overview" \in DOMAIN sections
    /\ "risk_factors" \in DOMAIN sections
    /\ sections["business_overview"] = trim(SubSeq(text, b + 1, a))
    /\ sections["risk_factors"] = trim(SubSeq(text, a + 1, t))

absentWhenNoMarker(lower, sections) ==
    /\ businessAt(lower) < 0 => "business_overview" \notin DOMAIN sections
    /\ riskAfter(lower, 0) < 0 => "risk_factors" \notin DOMAIN sections
    /\ DOMAIN sections \subseteq {"business_overview", "risk_factors"}

C28_AsStated ==
    IsSome(extracted) =>
        LET lower == toLowerCase(document)
            b == businessAt(lower)
            a == riskAfter(lower, b)
            t == item2After(lower, a)
        IN  /\ inOrder(lower) => abutAt(document, Val(extracted), b, a, t)
            /\ absentWhenNoMarker(lower, Val(extracted))

C28_SectionsAbut ==
    IsSome(extracted) =>
        LET lower == toLowerCase(document)
            b == businessAt(lower)
            a == riskAfter(lower, b)
            t == item2After(lower, a)
        IN  /\ ( /\ inOrder(lower)
                 /\ riskAfter(lower, 0) = a
                 /\ item1bAfter(lower, a) \notin a..t ) =>
                   abutAt(document, Val(extracted), b, a, t)
            /\ absentWhenNoMarker(lower, Val(extracted))

\* the text of the claim, followed by a further segment
C28_Witness ==
    /\ IsSome(extracted)
    /\ document = <<"I", "t", "e", "m", " ", "1", ".", " ", "B", "u", "s", "i", "n", "e", "s", "s", " ", "a", "a", " ", "I", "t", "e", "m", " ", "1", "A", ".", " ", "R", "i", "s", "k", " ", "F", "a", "c", "t", "o", "r", "s", " ", "r", "r", " ", "I", "T", "E", "M", " ", "2", ".", " ", "P", "r", "o", "p", "e", "r", "t", "i", "e", "s", " ", "p", "p", " ", "O", "v", "e", "r", "v", "i", "e", "w", " ", "o", "o">>
    /\ Val(extracted) = [k \in {"business_overview", "risk_factors"} |->
                           IF k = "business_overview" THEN <<"I", "t", "e", "m", " ", "1", ".", " ", "B", "u", "s", "i", "n", "e", "s", "s", " ", "a", "a">>
                           ELSE <<"I", "t", "e", "m", " ", "1", "A", ".", " ", "R", "i", "s", "k", " ", "F", "a", "c", "t", "o", "r", "s", " ", "r", "r">>]

(***************************************************************************)
(* C29: when two calls of loadTickerDirectory overlap before tickerMap is  *)
(* populated, each call whose fetch succeeds returns the directory, the    *)
(* directories returned are equal to one another and to tickerMap, and the *)
(* second populate leaves tickerMap holding the whole registry: once       *)
(* populated it is never null, never a part of it, never anything else.    *)
(***************************************************************************)
inDirectory(l) == l.pc \in {"dirRead", "dirFetch", "dirMkdir", "dirWrite"}

wholeRegistry(directory) ==
    /\ {directory[i].key : i \in 1..Len(directory)}
         = {toUpperCase(UpstreamTickers[i].ticker) : i \in 1..Len(UpstreamTickers)}
    /\ \A i \in 1..Len(UpstreamTickers) :
         \E j \in 1..Len(directory) : directory[j].entry = UpstreamTickers[i]

C29_OverlapHarmless ==
    [][ /\ IsSome(tickerMap) =>
             /\ IsSome(tickerMap')
             /\ tickerMap' = tickerMap
        /\ IsSome(tickerMap') => wholeRegistry(Val(tickerMap'))
        /\ \A p \in Procs :
             LET l == proc[p]
                 after == proc'[p]
             IN  (inDirectory(l) /\ ~inDirectory(after)) =>
                   \/ /\ lastOf(after) = "failed:tickers"
                      /\ Raised(after)
                   \/ /\ after.pc = l.dirRet
                      /\ IsSome(after.directory)
                      /\ after.directory = tickerMap'
                      /\ \A q \in Procs :
                           IsSome(proc[q].directory) =>
                               proc[q].directory = after.directory ]_vars

\* both calls fetched the registry, both wrote the snapshot, and both
\* returned what tickerMap holds
C29_Witness ==
    /\ \A p \in Procs :
         /\ Has(proc[p], "fetch:tickers")
         /\ Has(proc[p], "fs:write:tickers")
         /\ ~Has(proc[p], "dir:memo")
         /\ proc[p].directory = tickerMap
    /\ IsSome(tickerMap)
    /\ wholeRegistry(Val(tickerMap))

(***************************************************************************)
(* C30: in self-hosted mode a 13F-HR summary whose tabular sub-path failed *)
(* is written to the cache as any other summary is, without holdings; a    *)
(* later request that selects the filing while that file is in place is a  *)
(* cache hit that returns no holdings and fetches neither the index nor    *)
(* the information table.                                                  *)
(***************************************************************************)
C30_FailureIsCached ==
    [][\A p \in Procs :
         LET l == proc[p]
             after == proc'[p]
             key == Val(after.base).cacheKey
         IN  /\ ( /\ l.pc = "cacheWrite"
                  /\ SubPathFailed(l)
                  /\ after.pc = "done" ) =>
                    /\ selfHosted
                    /\ Returned(after)
                    /\ fileExists(disk', key)
                    /\ disk'[key] = [ok |-> TRUE,
                                     data |-> jsonRoundTrip(cachePayloadOf(Val(l.summary)))]
                    /\ disk'[key].data.holdings = None
                    /\ disk'[key].data.metadata.accessionNumber =
                           Val(l.filing).accessionNumber
             /\ ( /\ l.pc \in {"submissions", "cacheRead"}
                  /\ after.pc # l.pc
                  /\ IsSome(after.base)
                  /\ formTypeOf(l.req) = f13FHR
                  /\ fileExists(disk, key)
                  /\ disk[key].ok
                  /\ disk[key].data.holdings = None ) =>
                    \/ l.pc = "submissions" /\ after.pc = "cacheRead"
                    \/ /\ l.pc = "cacheRead"
                       /\ Returned(after)
                       /\ Val(after.result).metadata.cached
                       /\ Val(after.result).holdings = None
                       /\ Val(after.result).holdingsStats = None
                       /\ ~Has(after, "fetch:index")
                       /\ ~Has(after, "fetch:table")
                       /\ disk' = disk]_vars

\* the second call is a hit on the file written after a failed fetch of the
\* information table
C30_Witness ==
    \E p \in Procs :
        LET l == proc[p] IN
        /\ started = 2
        /\ Returned(l)
        /\ formTypeOf(l.req) = f13FHR
        /\ Val(l.result).metadata.cached
        /\ Val(l.result).holdings = None
        /\ Val(l.result).metadata.informationTableUrl # undefined
        /\ IsSome(l.atRead) /\ Val(l.atRead).ok
        /\ ~Has(l, "fetch:table")

(***************************************************************************)
(* C31: every call of secFetch dispatches its request in the end. A call   *)
(* suspends at the gate at most once, on a timer of at most minDelay       *)
(* (150 ms), and a call that is suspended goes on to dispatch whatever     *)
(* other calls arrive in the meantime.                                     *)
(***************************************************************************)
C31_EveryCallDispatches ==
    /\ [](\A c \in Callers : gate[c].waits <= 1)
    /\ [][\A c \in Callers :
            (gate[c].pc # "waiting" /\ gate'[c].pc = "waiting") =>
                /\ gate'[c].wakeAt - clock >= 1
                /\ gate'[c].wakeAt - clock <= 150]_vars
    /\ \A c \in Callers : (gate[c].pc = "waiting") ~> (gate[c].sent = 1)
    /\ \A c \in Callers : <>(gate[c].sent = 1)

\* a call that had to wait has dispatched, after another call arrived and
\* suspended while it was waiting
C31_Witness ==
    \E c, d \in Callers :
        /\ c # d
        /\ gate[c].waits = 1 /\ gate[c].sent = 1
        /\ gate[d].waits = 1 /\ gate[d].pc = "waiting"
        /\ gate[d].wakeAt > clock

(***************************************************************************)
(* C32: the cache key is injective on (entity, filing): two pairs of a cik *)
(* and a dashed accession number get the same key only when the ciks are   *)
(* the same number and the accession numbers are the same.                 *)
(***************************************************************************)
sameEntity(cikA, cikB) == stripLeadingZeros(cikA) = stripLeadingZeros(cikB)

C32_KeyInjective ==
    IsSome(cacheKeys) =>
        LET a == keyInputs[1]
            b == keyInputs[2]
        IN  (Val(cacheKeys)[1] = Val(cacheKeys)[2]) <=>
                (sameEntity(a[1], b[1]) /\ a[2] = b[2])

\* two entities with the same accession number get different keys
C32_Witness ==
    /\ IsSome(cacheKeys)
    /\ keyInputs = << <<<<"0", "0", "0", "0", "3", "2", "0", "1", "9", "3">>, <<"0", "0", "0", "0", "3", "2", "0", "1", "9", "3", "-", "2", "3", "-", "0", "0", "0", "1", "0", "6">>>>, <<<<"3", "2", "0", "1", "9">>, <<"0", "0", "0", "0", "3", "2", "0", "1", "9", "3", "-", "2", "3", "-", "0", "0", "0", "1", "0", "6">>>> >>
    /\ Val(cacheKeys) = << <<"3", "2", "0", "1", "9", "3", "-", "0", "0", "0", "0", "3", "2", "0", "1", "9", "3", "2", "3", "0", "0", "0", "1", "0", "6">>, <<"3", "2", "0", "1", "9", "-", "0", "0", "0", "0", "3", "2", "0", "1", "9", "3", "2", "3", "0", "0", "0", "1", "0", "6">> >>

(***************************************************************************)
(* C33: in every summary fetchSecFilingSummary returns, metadata.cached is *)
(* true exactly when the summary was read from the cache, and              *)
(* metadata.cachePath is present exactly then (and is the path of the file *)
(* read); the summary of a miss is returned with cached false while the    *)
(* payload written to disk for it has cached true.                         *)
(***************************************************************************)
servedFromCache(l) == IsSome(l.atRead) /\ Val(l.atRead).ok

C33_CachedExactlyOnHit ==
    /\ [](\A p \in Procs :
            LET l == proc[p]
                metadata == Val(l.result).metadata
            IN  Returned(l) =>
                  /\ metadata.cached <=> servedFromCache(l)
                  /\ (metadata.cachePath # undefined) <=> servedFromCache(l)
                  /\ servedFromCache(l) =>
                       /\ metadata.cachePath = cachePathOf(Val(l.base).cacheKey)
                       /\ ~FetchesOrExtracts(l)
                  /\ ~servedFromCache(l) => Has(l, "fetch:primary"))
    /\ [][\A p \in Procs :
            LET l == proc[p]
                after == proc'[p]
                key == Val(l.base).cacheKey
            IN  (l.pc = "cacheWrite" /\ after.pc # l.pc) =>
                  /\ Returned(after)
                  /\ ~Val(after.result).metadata.cached
                  /\ Val(after.result).metadata.cachePath = undefined
                  /\ disk'[key].ok
                  /\ disk'[key].data.metadata.cached
                  /\ disk'[key].data.metadata.accessionNumber =
                         Val(after.result).metadata.accessionNumber]_vars

\* a call that missed has returned cached false beside its file, which says
\* cached true
C33_Witness ==
    \E p \in Procs :
        LET l == proc[p]
            key == Val(l.base).cacheKey
        IN  /\ Returned(l)
            /\ Has(l, "fs:write:cache")
            /\ ~servedFromCache(l)
            /\ ~Val(l.result).metadata.cached
            /\ Val(l.result).metadata.cachePath = undefined
            /\ fileExists(disk, key) /\ disk[key].ok
            /\ disk[key].data.metadata.cached

=============================================================================
